---------------------------- MODULE Spec2Model ----------------------------
(***************************************************************************)
(* Model of the repository-owned logic of weaviate/agent-skills:           *)
(*   - the filter-expression compiler of skills/weaviate/scripts/          *)
(*     fetch_filter.py (parse_filter_item, parse_filters) and the main()   *)
(*     command that drives it;                                             *)
(*   - the sentence segmenter and chunker of skills/weaviate/scripts/      *)
(*     example_data.py (_get_sentences, chunk_by_sentences).               *)
(*                                                                         *)
(* Representation of Python/JSON data.  A decoded JSON value is a record   *)
(*   [t, op, prop, val, fk, kids]                                          *)
(* t    : "list" (a JSON array), "dict" (a JSON object) or "other" (a      *)
(*        number, string, boolean or null: neither list nor dict);         *)
(* op   : item.get("operator"), prop : item.get("property"), with the      *)
(*        token "None" for a missing key or JSON null and "" for the       *)
(*        empty string;                                                    *)
(* val  : item.get("value"), a token of Values;                            *)
(* fk   : the shape of the "filters" entry: "missing", "null", "num",      *)
(*        "str", "dict" or "list";                                         *)
(* kids : for t = "list" the elements; for a dict, what iterating over     *)
(*        the "filters" entry yields (the elements of a list, the          *)
(*        characters of a string, the keys of an object).                  *)
(* A compiled filter is a record [k, prop, op, val, subs] with k one of    *)
(* "none" (Python None), "leaf", "and" (Filter.all_of), "or"               *)
(* (Filter.any_of).                                                        *)
(***************************************************************************)
EXTENDS Integers, Sequences, FiniteSets, TLC

VARIABLES
    \* fetch_filter.py main()
    obj_id,           \* --id: "None" (not given), "" or a uuid
    filters,          \* --filters: [kind, data]
    pc,               \* position of main()
    client,           \* "none", "open", "closed"
    close_calls,      \* number of client.close() calls
    weaviate_filter,  \* result of parse_filters (local of main)
    parse_calls,      \* number of parse_filters calls
    fetch_calls,      \* number of collection.query.fetch_objects calls
    fetch_arg,        \* filters= argument of the last fetch_objects call
    stderr,           \* messages printed to stderr, in order
    exit_code,        \* process exit code, meaningful when pc = "done"
    \* parse_filters called on its own
    filter_json,      \* the argument: [kind, data]
    pf_pc,            \* "call", "returned" or "raised"
    pf_result,        \* what the call returned or raised, and what it printed
    \* example_data.py chunk_by_sentences()
    document,         \* the document: a sequence of characters
    num_sentences,    \* argument num_sentences
    overlap_arg,      \* argument overlap_sentences as passed
    overlap_sentences,\* the local overlap_sentences (after clamping)
    sentences,        \* _get_sentences(document): [texts, spans]
    i,                \* window start index
    chunks,           \* chunk texts emitted so far
    span_annotations, \* chunk spans emitted so far
    ck_warned,        \* number of clamp warnings printed
    ck_pc,            \* "call", "loop" or "done"
    \* weaviate_conn.py get_headers()
    environ,          \* os.environ: a function from variable names to strings
    hd_pc,            \* "call", "loop" or "done"
    hd_idx,           \* number of API_KEY_MAP items already visited
    headers,          \* the local dict headers: header name -> value
    hd_result,        \* what get_headers returned: [none, hs]
    \* import.py main(), from the connection on
    tenant_arg,       \* --tenant as passed: "None", "" or a name
    tenant,           \* the local tenant
    coll,             \* tenant of the collection handle coll, "None" without one
    is_multi_tenant,  \* whether the target collection is multi-tenant
    im_data,          \* the objects read: "ok", or "raises" in the try body
    batch_size,       \* --batch-size
    im_pc,            \* "connected", "exists", "batch", "done"
    im_idx,           \* number of objects visited by the for loop
    imported_count,   \* local imported_count
    failed_count,     \* local failed_count
    errors,           \* local errors, as tags
    batch_objects,    \* objects added to the batch: [obj, via]
    with_tenant_calls,\* number of coll.with_tenant calls
    im_stderr,        \* messages printed to stderr
    im_exit,          \* exit code
    im_result,        \* the result dict: [reported, tenant, total_objects, imported, failed]
    \* example_data.py main() and the create_<domain>_collection functions
    collections,      \* names of the collections that exist on the server
    domain,           \* --domain
    nrows,            \* --nrows; 0 stands for the falsy values None and 0
    dataset_len,      \* len(dataset) of the domain's dataset
    ex_pc,            \* "main", "create", "loop", "after", "returned", "raised", "exit"
    ex_row,           \* number of rows the for loop has taken from the dataset
    ex_added,         \* number of rows passed to batch.add_object
    number_errors,    \* batch.number_errors
    create_calls,     \* client.collections.create calls: [name, existed]
    target_existed,   \* whether the domain's own collection existed when main began
    ex_exc,           \* "none" or the exception that ended the run
    ex_stderr,        \* messages printed to stderr in this run
    ex_runs,          \* number of runs of main so far
    \* weaviate_conn.py get_client() and connect_client()
    cn_fn,            \* "get_client" or "connect_client"
    url,              \* argument and local url: [none, s]
    api_key,          \* argument and local api_key: [none, s]
    headers_arg,      \* argument and local headers: [none, hs]
    verbose,          \* argument verbose
    cn_pc,            \* "call", "resolved", "yielded", "returned", "closed", "exited", "raised"
    cn_client,        \* "none", "open" or "closed"
    connect_args,     \* arguments of connect_to_weaviate_cloud: [called, cluster_url, api_key, headers]
    cn_stderr,        \* messages printed to stderr
    cn_exit           \* exit status of sys.exit, 0 when it was not called

fetchVars == <<obj_id, filters, pc, client, close_calls, weaviate_filter,
               parse_calls, fetch_calls, fetch_arg, stderr, exit_code>>
filterVars == <<filter_json, pf_pc, pf_result>>
chunkVars == <<document, num_sentences, overlap_arg, overlap_sentences, sentences,
               i, chunks, span_annotations, ck_warned, ck_pc>>
headerVars == <<environ, hd_pc, hd_idx, headers, hd_result>>
importVars == <<tenant_arg, tenant, coll, is_multi_tenant, im_data, batch_size, im_pc, im_idx,
                imported_count, failed_count, errors, batch_objects,
                with_tenant_calls, im_stderr, im_exit, im_result>>
exampleVars == <<collections, domain, nrows, dataset_len, ex_pc, ex_row, ex_added,
                 number_errors, create_calls, target_existed, ex_exc, ex_stderr, ex_runs>>
connVars == <<cn_fn, url, api_key, headers_arg, verbose, cn_pc, cn_client,
              connect_args, cn_stderr, cn_exit>>
vars == <<fetchVars, filterVars, chunkVars, headerVars, importVars, exampleVars, connVars>>

\* what each program leaves alone
FetchFrame == UNCHANGED <<filterVars, chunkVars, headerVars, importVars, exampleVars, connVars>>
FilterFrame == UNCHANGED <<fetchVars, chunkVars, headerVars, importVars, exampleVars, connVars>>
ChunkFrame == UNCHANGED <<fetchVars, filterVars, headerVars, importVars, exampleVars, connVars>>
HeadersFrame == UNCHANGED <<fetchVars, filterVars, chunkVars, importVars, exampleVars, connVars>>
ImportFrame == UNCHANGED <<fetchVars, filterVars, chunkVars, headerVars, exampleVars, connVars>>
ExampleFrame == UNCHANGED <<fetchVars, filterVars, chunkVars, headerVars, importVars, connVars>>
ConnFrame == UNCHANGED <<fetchVars, filterVars, chunkVars, headerVars, importVars, exampleVars>>

---------------------------------------------------------------------------
(* Python values *)

PyNone == "None"

\* Python truthiness of a str-or-None token: None and "" are falsy.
Truthy(s) == s # PyNone /\ s # ""

\* Tokens for the "value" entry of a leaf: None, numbers, strings, lists.
Values == {"None", "0", "1", "x", "notalist", "[]", "[1]"}

\* isinstance(val, list)
IsList(val) == val \in {"[]", "[1]"}

\* bool(val)
PyBool(val) == IF val \in {"None", "0", "[]", ""} THEN "False" ELSE "True"

---------------------------------------------------------------------------
(* JSON values and compiled filters *)

JList(kids) ==
    [t |-> "list", op |-> PyNone, prop |-> PyNone, val |-> "None",
     fk |-> "missing", kids |-> kids]

JDict(op, prop, val, fk, kids) ==
    [t |-> "dict", op |-> op, prop |-> prop, val |-> val, fk |-> fk, kids |-> kids]

JOther ==
    [t |-> "other", op |-> PyNone, prop |-> PyNone, val |-> "None",
     fk |-> "missing", kids |-> <<>>]

JLeaf(prop, op, val) == JDict(op, prop, val, "missing", <<>>)

NoneF == [k |-> "none", prop |-> "", op |-> "", val |-> "", subs |-> <<>>]

\* Filter.by_property(prop).<op>(val)
ByProperty(prop, op, val) ==
    [k |-> "leaf", prop |-> prop, op |-> op, val |-> val, subs |-> <<>>]

\* Filter.all_of(sub_filters)
AllOf(subs) == [k |-> "and", prop |-> "", op |-> "", val |-> "", subs |-> subs]

\* Filter.any_of(sub_filters)
AnyOf(subs) == [k |-> "or", prop |-> "", op |-> "", val |-> "", subs |-> subs]

\* Outcome of a call: exc = "no" (returned f), "Exit" (typer.Exit(1)) or
\* "TypeError"; msgs are the lines printed to stderr before it ended.
Returned(f, msgs) == [exc |-> "no", f |-> f, msgs |-> msgs]
Raised(exc, msgs) == [exc |-> exc, f |-> NoneF, msgs |-> msgs]

---------------------------------------------------------------------------
(* parse_filter_item *)

RECURSIVE parse_filter_item(_), MapParse(_)

\* [parse_filter_item(x) for x in items], left to right; the first
\* exception ends the comprehension.
MapParse(items) ==
    IF items = <<>> THEN [exc |-> "no", fs |-> <<>>, msgs |-> <<>>]
    ELSE LET h == parse_filter_item(Head(items)) IN
         IF h.exc # "no" THEN [exc |-> h.exc, fs |-> <<>>, msgs |-> h.msgs]
         ELSE LET r == MapParse(Tail(items)) IN
              [exc |-> r.exc,
               fs |-> IF r.exc = "no" THEN <<h.f>> \o r.fs ELSE <<>>,
               msgs |-> h.msgs \o r.msgs]

\* [f for f in sub_filters if f is not None]
NotNone(f) == f.k # "none"
DropNone(fs) == SelectSeq(fs, NotNone)

\* item.get("filters", []) and whether a for loop can iterate over it
SubItems(item) == IF item.fk = "missing" THEN <<>> ELSE item.kids
Iterable(item) == item.fk \notin {"null", "num"}

ParseList_KeepsEmpty(item) ==
    LET m == MapParse(item.kids) IN
    IF m.exc # "no" THEN Raised(m.exc, m.msgs)
    ELSE Returned(AllOf(DropNone(m.fs)), m.msgs)

ParseList_Reversed(item) ==
    LET m == MapParse(item.kids)
        s == DropNone(m.fs) IN
    IF m.exc # "no" THEN Raised(m.exc, m.msgs)
    ELSE IF s = <<>> THEN Returned(NoneF, m.msgs)
    ELSE Returned(AllOf([j \in 1..Len(s) |-> s[Len(s) + 1 - j]]), m.msgs)

\* isinstance(item, list): implicit AND
ParseList(item) ==
    LET m == MapParse(item.kids) IN
    IF m.exc # "no" THEN Raised(m.exc, m.msgs)
    ELSE IF DropNone(m.fs) = <<>> THEN Returned(NoneF, m.msgs)
    ELSE Returned(AllOf(DropNone(m.fs)), m.msgs)

\* op == "and"
ParseAnd(item) ==
    IF ~Iterable(item) THEN Raised("TypeError", <<>>)
    ELSE LET m == MapParse(SubItems(item)) IN
         IF m.exc # "no" THEN Raised(m.exc, m.msgs)
         ELSE IF DropNone(m.fs) = <<>> THEN Returned(NoneF, m.msgs)
         ELSE Returned(AllOf(DropNone(m.fs)), m.msgs)

ParseOr_AllOf(item) ==
    IF ~Iterable(item) THEN Raised("TypeError", <<>>)
    ELSE LET m == MapParse(SubItems(item)) IN
         IF m.exc # "no" THEN Raised(m.exc, m.msgs)
         ELSE IF DropNone(m.fs) = <<>> THEN Returned(NoneF, m.msgs)
         ELSE Returned(AllOf(DropNone(m.fs)), m.msgs)

\* op == "or"
ParseOr(item) ==
    IF ~Iterable(item) THEN Raised("TypeError", <<>>)
    ELSE LET m == MapParse(SubItems(item)) IN
         IF m.exc # "no" THEN Raised(m.exc, m.msgs)
         ELSE IF DropNone(m.fs) = <<>> THEN Returned(NoneF, m.msgs)
         ELSE Returned(AnyOf(DropNone(m.fs)), m.msgs)

PlainOperators ==
    {"equal", "not_equal", "less_than", "less_or_equal", "greater_than",
     "greater_or_equal", "like"}

ParseProperty_UnknownFatal(item) ==
    LET op == item.op  prop == item.prop  val == item.val IN
    IF ~Truthy(prop) \/ ~Truthy(op) THEN Returned(NoneF, <<>>)
    ELSE IF op \in PlainOperators THEN Returned(ByProperty(prop, op, val), <<>>)
    ELSE IF op \in {"contains_any", "contains_all"} THEN
        IF ~IsList(val) THEN Raised("Exit", <<"Error: must be a list">>)
        ELSE Returned(ByProperty(prop, op, val), <<>>)
    ELSE IF op = "is_none" THEN Returned(ByProperty(prop, op, PyBool(val)), <<>>)
    ELSE Raised("Exit", <<"Warning: Unknown operator">>)

ParseProperty_ListUnchecked(item) ==
    LET op == item.op  prop == item.prop  val == item.val IN
    IF ~Truthy(prop) \/ ~Truthy(op) THEN Returned(NoneF, <<>>)
    ELSE IF op \in PlainOperators \cup {"contains_any", "contains_all"}
         THEN Returned(ByProperty(prop, op, val), <<>>)
    ELSE IF op = "is_none" THEN Returned(ByProperty(prop, op, PyBool(val)), <<>>)
    ELSE Returned(NoneF, <<"Warning: Unknown operator">>)

ParseProperty_WarnsBeforeCheck(item) ==
    LET op == item.op  prop == item.prop  val == item.val IN
    IF op \notin PlainOperators \cup {"contains_any", "contains_all", "is_none"}
    THEN Returned(NoneF, <<"Warning: Unknown operator">>)
    ELSE IF ~Truthy(prop) THEN Returned(NoneF, <<>>)
    ELSE IF op \in PlainOperators THEN Returned(ByProperty(prop, op, val), <<>>)
    ELSE IF op \in {"contains_any", "contains_all"} THEN
        IF ~IsList(val) THEN Raised("Exit", <<"Error: must be a list">>)
        ELSE Returned(ByProperty(prop, op, val), <<>>)
    ELSE Returned(ByProperty(prop, op, PyBool(val)), <<>>)

\* the property-filter branch
ParseProperty(item) ==
    LET op == item.op  prop == item.prop  val == item.val IN
    IF ~Truthy(prop) \/ ~Truthy(op) THEN Returned(NoneF, <<>>)
    ELSE IF op \in PlainOperators THEN Returned(ByProperty(prop, op, val), <<>>)
    ELSE IF op \in {"contains_any", "contains_all"} THEN
        IF ~IsList(val) THEN Raised("Exit", <<"Error: must be a list">>)
        ELSE Returned(ByProperty(prop, op, val), <<>>)
    ELSE IF op = "is_none" THEN Returned(ByProperty(prop, op, PyBool(val)), <<>>)
    ELSE Returned(NoneF, <<"Warning: Unknown operator">>)

parse_filter_item(item) ==
    IF item.t = "list" THEN ParseList(item)
    ELSE IF item.t # "dict" THEN Returned(NoneF, <<>>)
    ELSE IF item.op = "and" THEN ParseAnd(item)
    ELSE IF item.op = "or" THEN ParseOr(item)
    ELSE ParseProperty(item)

\* json.loads(filter_json): a JSONDecodeError for malformed text, else the
\* decoded value.
JsonDecodes(arg) == arg.kind = "json"

parse_filters_SwallowsBadJson(arg) ==
    IF arg.kind \in {"None", "empty", "malformed"} THEN Returned(NoneF, <<>>)
    ELSE parse_filter_item(arg.data)

parse_filters(arg) ==
    IF arg.kind \in {"None", "empty"} THEN Returned(NoneF, <<>>)
    ELSE IF ~JsonDecodes(arg)
         THEN Raised("Exit", <<"Error parsing filters JSON">>)
    ELSE parse_filter_item(arg.data)

---------------------------------------------------------------------------
(* Inputs: bounded sets of --filters and --id arguments *)

\* Largest number of JSON nodes in a generated filter tree
MaxNodes == 3

LeafA == JLeaf("a", "equal", "1")
LeafB == JLeaf("b", "like", "x")
LeafUnknown == JLeaf("a", "bogus", "1")
LeafFatalAny == JLeaf("a", "contains_any", "notalist")
LeafFatalAll == JLeaf("b", "contains_all", "1")
LeafList == JLeaf("b", "contains_all", "[1]")
AndNullFilters == JDict("and", PyNone, "None", "null", <<>>)

\* Elements that generated containers are built from
CoreAtoms == {LeafA, LeafB, LeafUnknown, LeafFatalAny, LeafList, JOther, AndNullFilters}

\* Further single values, tried on their own
ExtraAtoms ==
    { LeafFatalAll,
      JLeaf("a", "contains_any", "None"),
      JLeaf("a", "contains_any", "[]"),
      JLeaf("a", "is_none", "0"), JLeaf("a", "is_none", "1"),
      JLeaf("a", "equal", "None"),
      JLeaf(PyNone, "equal", "1"), JLeaf("", "equal", "1"),
      JLeaf("a", PyNone, "1"), JLeaf("a", "", "1"),
      JLeaf(PyNone, "contains_any", "notalist"),
      JLeaf(PyNone, "bogus", "1"),
      JLeaf(PyNone, PyNone, "None"),
      JDict("and", "a", "1", "missing", <<>>),
      JDict("or", "a", "1", "missing", <<>>),
      JDict("or", PyNone, "None", "null", <<>>),
      JDict("and", PyNone, "None", "num", <<>>),
      JDict("or", PyNone, "None", "num", <<>>),
      JDict("and", PyNone, "None", "str", <<JOther, JOther>>),
      JDict("or", PyNone, "None", "str", <<>>),
      JDict("and", PyNone, "None", "dict", <<JOther>>),
      JDict("or", PyNone, "None", "dict", <<JOther, JOther>>) } \cup
    { JLeaf("a", op, "1") : op \in PlainOperators }

Containers(kids) ==
    { JList(kids),
      JDict("and", PyNone, "None", "list", kids),
      JDict("or", PyNone, "None", "list", kids) }

RECURSIVE TreesOfSize(_), Forests(_)

\* Sequences of trees with m nodes in total
Forests(m) ==
    IF m = 0 THEN {<<>>}
    ELSE UNION { { <<t>> \o f : t \in TreesOfSize(j), f \in Forests(m - j) } : j \in 1..m }

\* JSON values with exactly n nodes
TreesOfSize(n) ==
    IF n = 1 THEN CoreAtoms \cup Containers(<<>>)
    ELSE UNION { Containers(f) : f \in Forests(n - 1) }

Trees(n) == ExtraAtoms \cup UNION { TreesOfSize(j) : j \in 1..n }

JAnd(kids) == JDict("and", PyNone, "None", "list", kids)
JOr(kids) == JDict("or", PyNone, "None", "list", kids)

\* Larger trees: leaves nested under and/or, next to unknown-operator,
\* null-compiling and non-iterable siblings.
ExampleUnknownNested == JOr(<<LeafUnknown, JAnd(<<LeafA, LeafB>>), LeafList>>)
ExampleFatalNested == JAnd(<<LeafUnknown, JOr(<<LeafA, LeafFatalAny>>)>>)
ExampleLongList == JList(<<LeafA, LeafUnknown, LeafB, JLeaf(PyNone, "equal", "1"), LeafList>>)

ExampleTrees ==
    { ExampleUnknownNested, ExampleFatalNested, ExampleLongList,
      JList(<<LeafUnknown, JOr(<<JAnd(<<LeafFatalAll>>)>>), LeafB>>),
      JList(<<AndNullFilters, LeafUnknown, LeafFatalAny>>),
      JAnd(<<JOr(<<LeafUnknown>>), LeafA, JOr(<<LeafA, LeafB>>)>>),
      JOr(<<JOr(<<>>), JAnd(<<LeafUnknown>>), LeafB>>),
      JList(<<LeafB, LeafA, LeafB>>) }

FilterArg(kind, data) == [kind |-> kind, data |-> data]

\* --filters values: not given, "", text that is not JSON, JSON text
FilterArgs(trees) ==
    { FilterArg(k, JOther) : k \in {"None", "empty", "malformed"} } \cup
    { FilterArg("json", d) : d \in trees }

ObjIds == {PyNone, "", "uuid"}

---------------------------------------------------------------------------
(* fetch_filter.py main() *)

FetchInit ==
    /\ obj_id \in ObjIds
    /\ filters \in FilterArgs(Trees(MaxNodes) \cup ExampleTrees)
    /\ pc = "start"
    /\ client = "none"
    /\ close_calls = 0
    /\ weaviate_filter = NoneF
    /\ parse_calls = 0
    /\ fetch_calls = 0
    /\ fetch_arg = NoneF
    /\ stderr = <<>>
    /\ exit_code = 0

ExitFromBody_NoClose(msgs) ==
    /\ UNCHANGED <<client, close_calls>>
    /\ stderr' = stderr \o msgs \o <<"Error">>
    /\ exit_code' = 1
    /\ pc' = "done"

\* Leaving the with-block by an exception after the client was yielded:
\* get_client's finally closes the client, main's except Exception prints
\* and raises typer.Exit(1).
ExitFromBody(msgs) ==
    /\ client' = "closed"
    /\ close_calls' = close_calls + 1
    /\ stderr' = stderr \o msgs \o <<"Error">>
    /\ exit_code' = 1
    /\ pc' = "done"

\* with get_client() as client: validate_env, then connect_to_weaviate_cloud
GetClient ==
    /\ FetchFrame
    /\ pc = "start"
    /\ \E env_ok \in BOOLEAN, conn_ok \in BOOLEAN :
         IF ~env_ok THEN
            \* validate_env: sys.exit(1)
            /\ stderr' = stderr \o <<"Error: environment variable not set">>
            /\ exit_code' = 1
            /\ pc' = "done"
            /\ UNCHANGED <<client, close_calls>>
         ELSE IF ~conn_ok THEN
            \* connect raises before the try/finally; main's except prints
            /\ stderr' = stderr \o <<"Connecting", "Error">>
            /\ exit_code' = 1
            /\ pc' = "done"
            /\ UNCHANGED <<client, close_calls>>
         ELSE
            /\ stderr' = stderr \o <<"Connecting", "Connected">>
            /\ client' = "open"
            /\ pc' = "connected"
            /\ UNCHANGED <<exit_code, close_calls>>
    /\ UNCHANGED <<obj_id, filters, weaviate_filter, parse_calls, fetch_calls, fetch_arg>>

\* client.collections.exists(collection_name)
CheckExists ==
    /\ FetchFrame
    /\ pc = "connected"
    /\ \E exists \in BOOLEAN :
         IF exists
         THEN /\ pc' = "exists"
              /\ UNCHANGED <<client, close_calls, stderr, exit_code>>
         ELSE ExitFromBody(<<"Error: Collection not found">>)
    /\ UNCHANGED <<obj_id, filters, weaviate_filter, parse_calls, fetch_calls, fetch_arg>>

\* if obj_id: collection.query.fetch_object_by_id(obj_id)
FetchById ==
    /\ FetchFrame
    /\ pc = "exists"
    /\ Truthy(obj_id)
    /\ \E found \in BOOLEAN :
         IF found
         THEN /\ pc' = "fetched"
              /\ stderr' = stderr \o <<"Fetching object">>
              /\ UNCHANGED <<client, close_calls, exit_code>>
         ELSE ExitFromBody(<<"Fetching object", "Error: Object not found">>)
    /\ UNCHANGED <<obj_id, filters, weaviate_filter, parse_calls, fetch_calls, fetch_arg>>

ParseFilters_IgnoresId ==
    /\ FetchFrame
    /\ pc = "exists"
    /\ parse_calls' = parse_calls + 1
    /\ LET r == parse_filters(filters) IN
         IF r.exc = "no"
         THEN /\ weaviate_filter' = r.f
              /\ stderr' = stderr \o r.msgs
              /\ pc' = "parsed"
              /\ UNCHANGED <<client, close_calls, exit_code>>
         ELSE /\ ExitFromBody(r.msgs)
              /\ UNCHANGED weaviate_filter
    /\ UNCHANGED <<obj_id, filters, fetch_calls, fetch_arg>>

\* else: weaviate_filter = parse_filters(filters)
ParseFilters ==
    /\ FetchFrame
    /\ pc = "exists"
    /\ ~Truthy(obj_id)
    /\ parse_calls' = parse_calls + 1
    /\ LET r == parse_filters(filters) IN
         IF r.exc = "no"
         THEN /\ weaviate_filter' = r.f
              /\ stderr' = stderr \o r.msgs
              /\ pc' = "parsed"
              /\ UNCHANGED <<client, close_calls, exit_code>>
         ELSE /\ ExitFromBody(r.msgs)
              /\ UNCHANGED weaviate_filter
    /\ UNCHANGED <<obj_id, filters, fetch_calls, fetch_arg>>

\* collection.query.fetch_objects(filters=weaviate_filter, ...)
FetchObjects ==
    /\ FetchFrame
    /\ pc = "parsed"
    /\ fetch_calls' = fetch_calls + 1
    /\ fetch_arg' = weaviate_filter
    /\ \E ok \in BOOLEAN :
         IF ok
         THEN /\ pc' = "fetched"
              /\ stderr' = stderr \o <<"Fetching objects">>
              /\ UNCHANGED <<client, close_calls, exit_code>>
         ELSE ExitFromBody(<<"Fetching objects">>)
    /\ UNCHANGED <<obj_id, filters, weaviate_filter, parse_calls>>

\* output formatting, then the with-block ends normally
Output ==
    /\ FetchFrame
    /\ pc = "fetched"
    /\ client' = "closed"
    /\ close_calls' = close_calls + 1
    /\ exit_code' = 0
    /\ pc' = "done"
    /\ UNCHANGED <<obj_id, filters, weaviate_filter, parse_calls, fetch_calls,
                   fetch_arg, stderr>>

FetchNext ==
    \/ GetClient
    \/ CheckExists
    \/ FetchById
    \/ ParseFilters
    \/ FetchObjects
    \/ Output

---------------------------------------------------------------------------
(* parse_filters called on its own *)

FilterInit ==
    /\ filter_json \in FilterArgs(Trees(MaxNodes) \cup ExampleTrees)
    /\ pf_pc = "call"
    /\ pf_result = Returned(NoneF, <<>>)

\* parse_filters(filter_json)
ParseFiltersCall ==
    /\ FilterFrame
    /\ pf_pc = "call"
    /\ pf_result' = parse_filters(filter_json)
    /\ pf_pc' = IF parse_filters(filter_json).exc = "no" THEN "returned" ELSE "raised"
    /\ UNCHANGED filter_json

FilterNext == ParseFiltersCall

---------------------------------------------------------------------------
(* example_data.py: strings, slices and the regular expression *)

\* Characters are one-character strings; offsets are 0-based as in Python.
sentence_boundaries == {".", "?", "!"}

\* the characters \s matches
IsSpace(c) == c \in {" ", "\n", "\t"}

CharAt(doc, k) == doc[k + 1]

\* Python's index normalisation in a slice of a sequence of length n
SliceIndex(x, n) ==
    IF x < 0 THEN (IF x + n < 0 THEN 0 ELSE x + n)
    ELSE IF x > n THEN n ELSE x

\* seq[lo:hi]
PySlice(seq, lo, hi) ==
    SubSeq(seq, SliceIndex(lo, Len(seq)) + 1, SliceIndex(hi, Len(seq)))

RECURSIVE LStrip(_), RStrip(_)
LStrip(str) ==
    IF str # <<>> /\ IsSpace(Head(str)) THEN LStrip(Tail(str)) ELSE str
RStrip(str) ==
    IF str # <<>> /\ IsSpace(str[Len(str)])
    THEN RStrip(SubSeq(str, 1, Len(str) - 1)) ELSE str

\* str.strip()
Strip(str) == RStrip(LStrip(str))

MatchesAt_AnySpace(doc, p) ==
    /\ p >= 1
    /\ p < Len(doc)
    /\ IsSpace(CharAt(doc, p))
    /\ ~IsSpace(CharAt(doc, p - 1))

\* The pattern (?<=\.|\?|!)\s+ matches at offset p: the character before p
\* is a sentence boundary and the character at p is whitespace.
MatchesAt(doc, p) ==
    /\ p >= 1
    /\ p < Len(doc)
    /\ CharAt(doc, p - 1) \in sentence_boundaries
    /\ IsSpace(CharAt(doc, p))

\* \s+ is greedy: the match ends where the whitespace run ends.
RECURSIVE RunEnd(_, _)
RunEnd(doc, p) ==
    IF p < Len(doc) /\ IsSpace(CharAt(doc, p)) THEN RunEnd(doc, p + 1) ELSE p

\* re.finditer(pattern, document) from offset pos on: the non-overlapping
\* matches, left to right, each <<match.start(), match.end()>>.
RECURSIVE FindIter(_, _)
FindIter(doc, pos) ==
    IF pos >= Len(doc) THEN <<>>
    ELSE IF MatchesAt(doc, pos)
         THEN <<<<pos, RunEnd(doc, pos)>>>> \o FindIter(doc, RunEnd(doc, pos))
    ELSE FindIter(doc, pos + 1)

---------------------------------------------------------------------------
(* _get_sentences *)

NoSentences == [texts |-> <<>>, spans |-> <<>>]

AddSentence_Prepend(acc, text, span) ==
    [texts |-> <<text>> \o acc.texts, spans |-> <<span>> \o acc.spans]

AddSentence(acc, text, span) ==
    [texts |-> Append(acc.texts, text), spans |-> Append(acc.spans, span)]

RECURSIVE SplitLoop_FromMatchStart(_, _, _, _)
SplitLoop_FromMatchStart(doc, matches, current_pos, acc) ==
    IF matches = <<>> THEN [acc |-> acc, current_pos |-> current_pos]
    ELSE LET sentence_end == Head(matches)[1]
             sentence == Strip(PySlice(doc, current_pos, sentence_end))
         IN SplitLoop_FromMatchStart(doc, Tail(matches), Head(matches)[1],
                      IF sentence # <<>>
                      THEN AddSentence(acc, sentence, <<current_pos, sentence_end>>)
                      ELSE acc)

\* the for loop over the matches: acc is (sentences, spans), current_pos
\* the end of the previous match
RECURSIVE SplitLoop(_, _, _, _)
SplitLoop(doc, matches, current_pos, acc) ==
    IF matches = <<>> THEN [acc |-> acc, current_pos |-> current_pos]
    ELSE LET sentence_end == Head(matches)[1]
             sentence == Strip(PySlice(doc, current_pos, sentence_end))
         IN SplitLoop(doc, Tail(matches), Head(matches)[2],
                      IF sentence # <<>>
                      THEN AddSentence(acc, sentence, <<current_pos, sentence_end>>)
                      ELSE acc)

WithRemaining_Dropped(doc, loop) == loop.acc

\* the text after the last match
WithRemaining(doc, loop) ==
    LET remaining == Strip(PySlice(doc, loop.current_pos, Len(doc))) IN
    IF remaining # <<>>
    THEN AddSentence(loop.acc, remaining, <<loop.current_pos, Len(doc)>>)
    ELSE loop.acc

\* the final pass that keeps the non-empty sentences
RECURSIVE Filtered(_, _)
Filtered(texts, spans) ==
    IF texts = <<>> THEN NoSentences
    ELSE LET rest == Filtered(Tail(texts), Tail(spans)) IN
         IF Head(texts) # <<>>
         THEN [texts |-> <<Head(texts)>> \o rest.texts,
               spans |-> <<Head(spans)>> \o rest.spans]
         ELSE rest

get_sentences_NoFallback(doc) ==
    IF doc = <<>> THEN NoSentences
    ELSE LET all == WithRemaining(doc, SplitLoop(doc, FindIter(doc, 0), 0, NoSentences))
         IN Filtered(all.texts, all.spans)

get_sentences_EmptyIsSentence(doc) ==
    LET all == WithRemaining(doc, SplitLoop(doc, FindIter(doc, 0), 0, NoSentences))
        kept == Filtered(all.texts, all.spans)
    IN IF kept.texts # <<>> THEN kept
       ELSE [texts |-> <<doc>>, spans |-> <<<<0, Len(doc)>>>>]

get_sentences(doc) ==
    IF doc = <<>> THEN NoSentences
    ELSE LET all == WithRemaining(doc, SplitLoop(doc, FindIter(doc, 0), 0, NoSentences))
             kept == Filtered(all.texts, all.spans)
         IN IF kept.texts # <<>> THEN kept
            ELSE [texts |-> <<doc>>, spans |-> <<<<0, Len(doc)>>>>]

---------------------------------------------------------------------------
(* chunk_by_sentences *)

\* Largest document length, num_sentences and overlap_sentences tried
MaxDocLen == 5
MaxNum == 3
MaxOverlap == 3

Alphabet == {"a", ".", " "}

RECURSIVE Strings(_)
Strings(n) ==
    IF n = 0 THEN {<<>>}
    ELSE Strings(n - 1) \cup
         { Append(str, c) : str \in { x \in Strings(n - 1) : Len(x) = n - 1 }, c \in Alphabet }

DocABC == <<"A", ".", " ", "B", ".", " ", "C", ".">>

ExampleDocs ==
    { DocABC,
      <<"a", "?", " ", "a", "!", "\n", "\t", "a">>,
      <<" ", "a", ".", " ", " ", "a", ".", " ">>,
      <<"\n", "!", "\t", "?", " ", ".", "a", " ", "a">>,
      <<"a", ".", " ", "a", ".", " ", "a", ".", " ", "a", ".", " ", "a">> }

Documents == Strings(MaxDocLen) \cup ExampleDocs

ChunkInit ==
    /\ document \in Documents
    /\ num_sentences \in (0 - 1)..MaxNum
    /\ overlap_arg \in (0 - 1)..MaxOverlap
    /\ overlap_sentences = overlap_arg
    /\ sentences = NoSentences
    /\ i = 0
    /\ chunks = <<>>
    /\ span_annotations = <<>>
    /\ ck_warned = 0
    /\ ck_pc = "call"

\* (start_char, end_char) of a window of sentence spans
ChunkSpan_FirstEnd(chunk_sentences) ==
    <<chunk_sentences[1][1], chunk_sentences[1][2]>>

ChunkSpan_StartOfLast(chunk_sentences) ==
    <<chunk_sentences[1][1], chunk_sentences[Len(chunk_sentences)][1]>>

ChunkSpan(chunk_sentences) ==
    <<chunk_sentences[1][1], chunk_sentences[Len(chunk_sentences)][2]>>

\* i += num_sentences - overlap_sentences
NextIndex_NoOverlap(idx, num, overlap) == idx + num

NextIndex_OneMore(idx, num, overlap) == idx + num - overlap + 1

NextIndex_ByOne(idx, num, overlap) == idx + 1

NextIndex_Back(idx, num, overlap) == idx + overlap - num

NextIndex(idx, num, overlap) == idx + num - overlap

\* if overlap_sentences >= num_sentences: overlap_sentences = num_sentences - 1
ClampOverlap_ToZero(num, overlap) == IF overlap >= num THEN 0 ELSE overlap

ClampOverlap(num, overlap) == IF overlap >= num THEN num - 1 ELSE overlap

\* document[start_char:end_char]
ChunkText_Stripped(doc, span) == Strip(PySlice(doc, span[1], span[2]))

ChunkText(doc, span) == PySlice(doc, span[1], span[2])

NoChunks == [chunks |-> <<>>, spans |-> <<>>]

\* the while loop from index idx on, as a function of its inputs: what it
\* appends to (chunks, span_annotations)
RECURSIVE WindowLoop(_, _, _, _, _)
WindowLoop(doc, sents, num, overlap, idx) ==
    IF ~(idx < Len(sents.texts)) THEN NoChunks
    ELSE LET chunk_sentences == PySlice(sents.spans, idx, idx + num) IN
         IF chunk_sentences = <<>> THEN NoChunks
         ELSE LET span == ChunkSpan(chunk_sentences)
                  rest == WindowLoop(doc, sents, num, overlap, NextIndex(idx, num, overlap))
              IN [chunks |-> <<ChunkText(doc, span)>> \o rest.chunks,
                  spans |-> <<span>> \o rest.spans]

\* chunk_by_sentences(document, num_sentences, overlap_sentences) as a
\* function: the pair it returns
chunk_by_sentences(doc, num, overlap) ==
    WindowLoop(doc, get_sentences(doc), num, ClampOverlap(num, overlap), 0)

\* the clamp of overlap_sentences, then sentences = _get_sentences(document)
ChunkStart ==
    /\ ChunkFrame
    /\ ck_pc = "call"
    /\ ck_warned' = IF overlap_sentences >= num_sentences THEN ck_warned + 1 ELSE ck_warned
    /\ overlap_sentences' = ClampOverlap(num_sentences, overlap_sentences)
    /\ sentences' = get_sentences(document)
    /\ i' = 0
    /\ chunks' = <<>>
    /\ span_annotations' = <<>>
    /\ ck_pc' = "loop"
    /\ UNCHANGED <<document, num_sentences, overlap_arg>>

\* one iteration of while i < len(sentences[0])
ChunkIter ==
    /\ ChunkFrame
    /\ ck_pc = "loop"
    /\ i < Len(sentences.texts)
    /\ LET chunk_sentences == PySlice(sentences.spans, i, i + num_sentences) IN
       IF chunk_sentences = <<>>
       THEN \* break
            /\ ck_pc' = "done"
            /\ UNCHANGED <<i, chunks, span_annotations>>
       ELSE LET span == ChunkSpan(chunk_sentences) IN
            /\ chunks' = Append(chunks, ChunkText(document, span))
            /\ span_annotations' = Append(span_annotations, span)
            /\ i' = NextIndex(i, num_sentences, overlap_sentences)
            /\ UNCHANGED ck_pc
    /\ UNCHANGED <<document, num_sentences, overlap_arg, overlap_sentences,
                   sentences, ck_warned>>

\* the loop condition fails: return chunks, span_annotations
ChunkReturn ==
    /\ ChunkFrame
    /\ ck_pc = "loop"
    /\ ~(i < Len(sentences.texts))
    /\ ck_pc' = "done"
    /\ UNCHANGED <<document, num_sentences, overlap_arg, overlap_sentences,
                   sentences, i, chunks, span_annotations, ck_warned>>

ChunkNext ==
    \/ ChunkStart
    \/ ChunkIter
    \/ ChunkReturn

---------------------------------------------------------------------------
(* weaviate_conn.py: API_KEY_MAP and get_headers *)

\* The items of API_KEY_MAP in insertion order: <<env_var, header_name>>
API_KEY_MAP ==
    << <<"ANTHROPIC_APIKEY", "X-Anthropic-Api-Key">>,
       <<"ANTHROPIC_API_KEY", "X-Anthropic-Api-Key">>,
       <<"ANYSCALE_APIKEY", "X-Anyscale-Api-Key">>,
       <<"ANYSCALE_API_KEY", "X-Anyscale-Api-Key">>,
       <<"AWS_ACCESS_KEY", "X-Aws-Access-Key">>,
       <<"AWS_SECRET_KEY", "X-Aws-Secret-Key">>,
       <<"COHERE_APIKEY", "X-Cohere-Api-Key">>,
       <<"COHERE_API_KEY", "X-Cohere-Api-Key">>,
       <<"DATABRICKS_TOKEN", "X-Databricks-Token">>,
       <<"FRIENDLI_TOKEN", "X-Friendli-Api-Key">>,
       <<"VERTEX_APIKEY", "X-Goog-Vertex-Api-Key">>,
       <<"VERTEX_API_KEY", "X-Goog-Vertex-Api-Key">>,
       <<"STUDIO_APIKEY", "X-Goog-Studio-Api-Key">>,
       <<"STUDIO_API_KEY", "X-Goog-Studio-Api-Key">>,
       <<"HUGGINGFACE_APIKEY", "X-HuggingFace-Api-Key">>,
       <<"HUGGINGFACE_API_KEY", "X-HuggingFace-Api-Key">>,
       <<"JINAAI_APIKEY", "X-JinaAI-Api-Key">>,
       <<"JINAAI_API_KEY", "X-JinaAI-Api-Key">>,
       <<"MISTRAL_APIKEY", "X-Mistral-Api-Key">>,
       <<"MISTRAL_API_KEY", "X-Mistral-Api-Key">>,
       <<"NVIDIA_APIKEY", "X-Nvidia-Api-Key">>,
       <<"NVIDIA_API_KEY", "X-Nvidia-Api-Key">>,
       <<"OPENAI_APIKEY", "X-OpenAI-Api-Key">>,
       <<"OPENAI_API_KEY", "X-OpenAI-Api-Key">>,
       <<"AZURE_APIKEY", "X-Azure-Api-Key">>,
       <<"AZURE_API_KEY", "X-Azure-Api-Key">>,
       <<"VOYAGE_APIKEY", "X-Voyage-Api-Key">>,
       <<"VOYAGE_API_KEY", "X-Voyage-Api-Key">>,
       <<"XAI_APIKEY", "X-Xai-Api-Key">>,
       <<"XAI_API_KEY", "X-Xai-Api-Key">> >>

\* os.environ.get(name, default)
EnvGet(env, name, default) == IF name \in DOMAIN env THEN env[name] ELSE default

\* headers = {}
EmptyDict == [h \in {} |-> <<>>]

\* headers[header_name] = value
DictSet(hs, key, val) == [h \in DOMAIN hs \cup {key} |-> IF h = key THEN val ELSE hs[h]]

HeaderStep_Overwrite(env, hs, item) ==
    LET value == Strip(EnvGet(env, item[1], <<>>)) IN
    IF value # <<>> THEN DictSet(hs, item[2], value) ELSE hs

\* the body of the for loop for one item of API_KEY_MAP
HeaderStep(env, hs, item) ==
    LET value == Strip(EnvGet(env, item[1], <<>>)) IN
    IF value # <<>> /\ item[2] \notin DOMAIN hs
    THEN DictSet(hs, item[2], value) ELSE hs

\* return headers if headers else None
HeadersResult(hs) == [none |-> hs = EmptyDict, hs |-> hs]

\* get_headers() as a function of the environment
RECURSIVE HeadersLoop(_, _, _)
HeadersLoop(env, items, hs) ==
    IF items = <<>> THEN hs
    ELSE HeadersLoop(env, Tail(items), HeaderStep(env, hs, Head(items)))

get_headers(env) == HeadersResult(HeadersLoop(env, API_KEY_MAP, EmptyDict))

\* Number of environment variables that may be set, taken in this order;
\* the last one is not a key of API_KEY_MAP.
MaxEnvVars == 4

EnvNamePool ==
    <<"ANTHROPIC_APIKEY", "ANTHROPIC_API_KEY", "XAI_API_KEY", "AWS_ACCESS_KEY",
      "XAI_APIKEY", "DATABRICKS_TOKEN", "HOME">>

EnvNames == { EnvNamePool[n] : n \in 1..MaxEnvVars }

\* values of a variable that is set: empty, blank, a key, keys with
\* whitespace around them
EnvValues == { <<>>, <<" ">>, <<"k">>, <<" ", "j", "\n">> }

Environments == UNION { [S -> EnvValues] : S \in SUBSET EnvNames }

HeadersInit ==
    /\ environ \in Environments
    /\ hd_pc = "call"
    /\ hd_idx = 0
    /\ headers = EmptyDict
    /\ hd_result = HeadersResult(EmptyDict)

\* headers = {}
HeadersStart ==
    /\ hd_pc = "call"
    /\ headers' = EmptyDict
    /\ hd_idx' = 0
    /\ hd_pc' = "loop"
    /\ UNCHANGED <<environ, hd_result>>
    /\ HeadersFrame

\* one iteration of for env_var, header_name in API_KEY_MAP.items()
HeadersIter ==
    /\ hd_pc = "loop"
    /\ hd_idx < Len(API_KEY_MAP)
    /\ headers' = HeaderStep(environ, headers, API_KEY_MAP[hd_idx + 1])
    /\ hd_idx' = hd_idx + 1
    /\ UNCHANGED <<environ, hd_pc, hd_result>>
    /\ HeadersFrame

\* return headers if headers else None
HeadersReturn ==
    /\ hd_pc = "loop"
    /\ hd_idx = Len(API_KEY_MAP)
    /\ hd_result' = HeadersResult(headers)
    /\ hd_pc' = "done"
    /\ UNCHANGED <<environ, hd_idx, headers>>
    /\ HeadersFrame

HeadersNext ==
    \/ HeadersStart
    \/ HeadersIter
    \/ HeadersReturn

---------------------------------------------------------------------------
(* import.py: main() once the file is read and the client is connected *)

MaxObjects == 3
MaxBatchSize == 2

NoResult == [reported |-> FALSE, tenant |-> PyNone, total_objects |-> 0,
             imported |-> 0, failed |-> 0]

Tenants == {PyNone, "", "tenantA"}

DataSets == UNION { [1..n -> {"ok", "raises"}] : n \in 1..MaxObjects }

ImportInit ==
    /\ tenant_arg \in Tenants
    /\ tenant = tenant_arg
    /\ coll = PyNone
    /\ is_multi_tenant \in BOOLEAN
    /\ im_data \in DataSets
    /\ batch_size \in 1..MaxBatchSize
    /\ im_pc = "connected"
    /\ im_idx = 0
    /\ imported_count = 0
    /\ failed_count = 0
    /\ errors = <<>>
    /\ batch_objects = <<>>
    /\ with_tenant_calls = 0
    /\ im_stderr = <<>>
    /\ im_exit = 0
    /\ im_result = NoResult

\* raise typer.Exit(1) inside the outer try: except Exception prints and
\* raises typer.Exit(1)
ImportExit(msgs) ==
    /\ im_stderr' = im_stderr \o msgs \o <<"Error">>
    /\ im_exit' = 1
    /\ im_pc' = "done"

\* if not client.collections.exists(collection)
ImportCheckExists ==
    /\ ImportFrame
    /\ im_pc = "connected"
    /\ \E exists \in BOOLEAN :
         IF exists
         THEN /\ im_pc' = "exists"
              /\ UNCHANGED <<im_stderr, im_exit>>
         ELSE ImportExit(<<"Error: Collection does not exist">>)
    /\ UNCHANGED <<tenant_arg, tenant, coll, is_multi_tenant, im_data, batch_size, im_idx,
                   imported_count, failed_count, errors, batch_objects,
                   with_tenant_calls, im_result>>

\* the validation of the tenant parameter: what it prints, whether it
\* exits, and the value of tenant afterwards
TenantCheck_KeepsTenant(multi, t) ==
    IF multi /\ ~Truthy(t)
    THEN [exit |-> TRUE, msgs |-> <<"Error: multi-tenant, --tenant required">>, tenant |-> t]
    ELSE IF ~multi /\ Truthy(t)
    THEN [exit |-> FALSE, msgs |-> <<"Warning: not multi-tenant, --tenant ignored">>,
          tenant |-> t]
    ELSE [exit |-> FALSE, msgs |-> <<>>, tenant |-> t]

TenantCheck(multi, t) ==
    IF multi /\ ~Truthy(t)
    THEN [exit |-> TRUE, msgs |-> <<"Error: multi-tenant, --tenant required">>, tenant |-> t]
    ELSE IF ~multi /\ Truthy(t)
    THEN [exit |-> FALSE, msgs |-> <<"Warning: not multi-tenant, --tenant ignored">>,
          tenant |-> PyNone]
    ELSE [exit |-> FALSE, msgs |-> <<>>, tenant |-> t]

\* config lookup, tenant validation, with_tenant, and the zeroing of the
\* counters before the batch is opened
ImportTenant ==
    /\ ImportFrame
    /\ im_pc = "exists"
    /\ LET chk == TenantCheck(is_multi_tenant, tenant) IN
         IF chk.exit
         THEN /\ ImportExit(chk.msgs)
              /\ UNCHANGED <<tenant, coll, with_tenant_calls>>
         ELSE /\ tenant' = chk.tenant
              /\ coll' = IF Truthy(chk.tenant) THEN chk.tenant ELSE coll
              /\ with_tenant_calls' =
                    IF Truthy(chk.tenant) THEN with_tenant_calls + 1 ELSE with_tenant_calls
              /\ im_stderr' = im_stderr \o chk.msgs
                    \o (IF Truthy(chk.tenant) THEN <<"Using tenant">> ELSE <<>>)
                    \o <<"Importing">>
              /\ im_pc' = "batch"
              /\ UNCHANGED im_exit
    /\ UNCHANGED <<tenant_arg, is_multi_tenant, im_data, batch_size, im_idx,
                   imported_count, failed_count, errors, batch_objects, im_result>>

\* one iteration of for i, obj in enumerate(im_data, 1)
ImportAdd ==
    /\ ImportFrame
    /\ im_pc = "batch"
    /\ im_idx < Len(im_data)
    /\ im_idx' = im_idx + 1
    /\ IF im_data[im_idx + 1] = "ok"
       THEN /\ batch_objects' = Append(batch_objects, [obj |-> im_idx + 1, via |-> coll])
            /\ imported_count' = imported_count + 1
            /\ im_stderr' = IF (im_idx + 1) % batch_size = 0
                            THEN Append(im_stderr, "Progress") ELSE im_stderr
            /\ UNCHANGED <<failed_count, errors>>
       ELSE /\ failed_count' = failed_count + 1
            /\ errors' = Append(errors, "Object")
            /\ im_stderr' = IF Len(errors) + 1 <= 5
                            THEN Append(im_stderr, "Warning: Object") ELSE im_stderr
            /\ UNCHANGED <<batch_objects, imported_count>>
    /\ UNCHANGED <<tenant_arg, tenant, coll, is_multi_tenant, im_data, batch_size, im_pc,
                   with_tenant_calls, im_exit, im_result>>

RECURSIVE AppendBatchErrors(_, _)
AppendBatchErrors(errs, n) ==
    IF n = 0 THEN errs
    ELSE AppendBatchErrors(IF Len(errs) < 5 THEN Append(errs, "Batch error") ELSE errs, n - 1)

\* success_count = imported_count - failed_count
SuccessCount(imported, failed) == imported - failed

\* the batch is closed, its failed objects are counted, the result is
\* reported and the run exits with 1 when anything failed
ImportReport ==
    /\ ImportFrame
    /\ im_pc = "batch"
    /\ im_idx = Len(im_data)
    /\ \E rejected \in SUBSET (1..Len(batch_objects)) :
         LET failed == failed_count + Cardinality(rejected) IN
         /\ failed_count' = failed
         /\ errors' = AppendBatchErrors(errors, Cardinality(rejected))
         /\ im_result' = [reported |-> TRUE, tenant |-> tenant,
                          total_objects |-> Len(im_data),
                          imported |-> SuccessCount(imported_count, failed),
                          failed |-> failed]
         /\ IF failed > 0
            THEN ImportExit(<<"Import completed">>)
            ELSE /\ im_stderr' = Append(im_stderr, "Import completed")
                 /\ im_pc' = "done"
                 /\ UNCHANGED im_exit
    /\ UNCHANGED <<tenant_arg, tenant, coll, is_multi_tenant, im_data, batch_size, im_idx,
                   imported_count, batch_objects, with_tenant_calls>>

ImportNext ==
    \/ ImportCheckExists
    \/ ImportTenant
    \/ ImportAdd
    \/ ImportReport

---------------------------------------------------------------------------
(* example_data.py: main() and the create_<domain>_collection functions *)

MaxRows == 12
MaxRuns == 2

Domains == {"academic", "finance", "ecommerce", "medical", "customer_support"}

\* the collection each create_<domain>_collection function creates
CreatedCollection(d) ==
    CASE d = "academic" -> "AI_Arxiv"
      [] d = "finance" -> "Income_Tax_Returns"
      [] d = "ecommerce" -> "Product_Catalog"
      [] d = "medical" -> "Hair_Medical"
      [] d = "customer_support" -> "IT_Support_Tickets"

\* the name each function passes to client.collections.exists
CheckedCollection(d) ==
    CASE d = "academic" -> "AI_Arxiv"
      [] d = "finance" -> "Income_Tax_Returns"
      [] d = "ecommerce" -> "Product_Catalog"
      [] d = "medical" -> "Hair_Medical"
      [] d = "customer_support" -> "Hair_Medical"

\* nrows = nrows or len(dataset)
NrowsOrLen(n, len) == IF n # 0 THEN n ELSE len

PyMin(a, b) == IF a <= b THEN a ELSE b

\* min(nrows, len(dataset)) as the loop evaluates it
LoopRows(n, len) == PyMin(NrowsOrLen(n, len), len)

\* int(min(nrows, len(dataset)) / 10)
ReportInterval(n, len) == LoopRows(n, len) \div 10

ExampleInit ==
    /\ collections = {}
    /\ domain = "academic"
    /\ nrows = 0
    /\ dataset_len = 1
    /\ ex_pc = "main"
    /\ ex_row = 0
    /\ ex_added = 0
    /\ number_errors = 0
    /\ create_calls = <<>>
    /\ target_existed = FALSE
    /\ ex_exc = "none"
    /\ ex_stderr = <<>>
    /\ ex_runs = 0

\* one invocation of main: the dispatch on --domain
ExMain ==
    /\ ExampleFrame
    /\ ex_pc \in {"main", "returned", "raised", "exit"}
    /\ ex_runs < MaxRuns
    /\ \E d \in Domains \cup {"other"}, n \in 0..MaxRows, len \in 1..MaxRows :
         /\ domain' = d
         /\ nrows' = n
         /\ dataset_len' = len
         /\ target_existed' = (d \in Domains /\ CreatedCollection(d) \in collections)
         /\ IF d \in Domains
            THEN /\ ex_pc' = "create"
                 /\ ex_stderr' = <<>>
            ELSE /\ ex_pc' = "exit"
                 /\ ex_stderr' = <<"Domain not supported">>
    /\ ex_runs' = ex_runs + 1
    /\ ex_row' = 0
    /\ ex_added' = 0
    /\ number_errors' = 0
    /\ ex_exc' = "none"
    /\ UNCHANGED <<collections, create_calls>>

\* the head of a create_<domain>_collection function: the existence
\* check, client.collections.create and load_dataset
ExCreate ==
    /\ ExampleFrame
    /\ ex_pc = "create"
    /\ IF CheckedCollection(domain) \in collections
       THEN /\ ex_pc' = "returned"
            /\ ex_stderr' = Append(ex_stderr, "already exists")
            /\ UNCHANGED <<collections, create_calls, ex_exc>>
       ELSE /\ create_calls' = Append(create_calls,
                                      [name |-> CreatedCollection(domain),
                                       existed |-> CreatedCollection(domain) \in collections])
            /\ ex_stderr' = Append(ex_stderr, "Creating collection")
            /\ IF CreatedCollection(domain) \in collections
               THEN \* the server refuses to create a collection that exists
                    /\ ex_pc' = "raised"
                    /\ ex_exc' = "UnexpectedStatusCodeError"
                    /\ UNCHANGED collections
               ELSE /\ collections' = collections \cup {CreatedCollection(domain)}
                    /\ ex_pc' = "loop"
                    /\ UNCHANGED ex_exc
    /\ UNCHANGED <<domain, nrows, dataset_len, ex_row, ex_added, number_errors,
                   target_existed, ex_runs>>

\* one iteration of for i in range(min(nrows, len(dataset)))
ExRow ==
    /\ ExampleFrame
    /\ ex_pc = "loop"
    /\ ex_row < LoopRows(nrows, dataset_len)
    /\ ex_row' = ex_row + 1
    /\ IF ReportInterval(nrows, dataset_len) = 0
       THEN \* i % 0
            /\ ex_pc' = "raised"
            /\ ex_exc' = "ZeroDivisionError"
            /\ UNCHANGED <<ex_added, number_errors, ex_stderr>>
       ELSE /\ ex_stderr' = IF ex_row % ReportInterval(nrows, dataset_len) = 0
                            THEN Append(ex_stderr, "Importing")
                            ELSE ex_stderr
            /\ ex_added' = ex_added + 1
            /\ \E err \in BOOLEAN :
                 LET errs == IF err THEN number_errors + 1 ELSE number_errors IN
                 /\ number_errors' = errs
                 /\ ex_pc' = IF errs > 10 THEN "after" ELSE "loop"
            /\ UNCHANGED ex_exc
    /\ UNCHANGED <<collections, domain, nrows, dataset_len, create_calls,
                   target_existed, ex_runs>>

\* the loop is over: the failed objects are reported, or the object count
ExFinish ==
    /\ ExampleFrame
    /\ \/ ex_pc = "loop" /\ ex_row = LoopRows(nrows, dataset_len)
       \/ ex_pc = "after"
    /\ ex_stderr' = (IF ex_pc = "after" THEN Append(ex_stderr, "Batch import stopped")
                     ELSE ex_stderr)
                    \o (IF number_errors > 0 THEN <<"Number of failed imports">>
                        ELSE <<"Created collection">>)
    /\ ex_pc' = "returned"
    /\ UNCHANGED <<collections, domain, nrows, dataset_len, ex_row, ex_added,
                   number_errors, create_calls, target_existed, ex_exc, ex_runs>>

ExampleNext ==
    \/ ExMain
    \/ ExCreate
    \/ ExRow
    \/ ExFinish

---------------------------------------------------------------------------
(* weaviate_conn.py: validate_env, get_client and connect_client *)

\* a str-or-None value whose characters matter
NoneStr == [none |-> TRUE, s |-> <<>>]
Str(s) == [none |-> FALSE, s |-> s]

\* bool(x) of a str-or-None value
TruthyStr(x) == ~x.none /\ x.s # <<>>

\* x or y
PyOr(x, y) == IF TruthyStr(x) THEN x ELSE y

\* validate_env(require_weaviate=True): either exits with status 1 after
\* a message, or returns (url, api_key)
validate_env(env) ==
    LET env_url == Strip(EnvGet(env, "WEAVIATE_URL", <<>>))
        env_key == Strip(EnvGet(env, "WEAVIATE_API_KEY", <<>>))
    IN IF env_url = <<>>
       THEN [exit |-> TRUE, msgs |-> <<"Error: WEAVIATE_URL environment variable not set">>,
             url |-> Str(env_url), api_key |-> Str(env_key)]
       ELSE IF env_key = <<>>
       THEN [exit |-> TRUE, msgs |-> <<"Error: WEAVIATE_API_KEY environment variable not set">>,
             url |-> Str(env_url), api_key |-> Str(env_key)]
       ELSE [exit |-> FALSE, msgs |-> <<>>, url |-> Str(env_url), api_key |-> Str(env_key)]

\* if url is None or api_key is None: validate_env(); url = url or env_url;
\* api_key = api_key or env_api_key
Credentials(env, u, k) ==
    IF u.none \/ k.none
    THEN LET v == validate_env(env) IN
         [exit |-> v.exit, msgs |-> v.msgs,
          url |-> IF v.exit THEN u ELSE PyOr(u, v.url),
          api_key |-> IF v.exit THEN k ELSE PyOr(k, v.api_key)]
    ELSE [exit |-> FALSE, msgs |-> <<>>, url |-> u, api_key |-> k]

NoConnect == [called |-> FALSE, cluster_url |-> NoneStr, api_key |-> NoneStr,
              headers |-> HeadersResult(EmptyDict)]

ConnEnvNames == {"WEAVIATE_URL", "WEAVIATE_API_KEY", "OPENAI_API_KEY"}

ConnEnvironments == UNION { [S -> EnvValues] : S \in SUBSET ConnEnvNames }

StrArgs == {NoneStr, Str(<<>>), Str(<<"u">>)}

CustomHeaders == [none |-> FALSE, hs |-> DictSet(EmptyDict, "X-Custom", <<"c">>)]

ConnInit ==
    /\ environ \in ConnEnvironments
    /\ hd_pc = "idle"
    /\ hd_idx = 0
    /\ headers = EmptyDict
    /\ hd_result = HeadersResult(EmptyDict)
    /\ cn_fn \in {"get_client", "connect_client"}
    /\ url \in StrArgs
    /\ api_key \in StrArgs
    /\ headers_arg \in {HeadersResult(EmptyDict), CustomHeaders}
    /\ verbose \in BOOLEAN
    /\ cn_pc = "call"
    /\ cn_client = "none"
    /\ connect_args = NoConnect
    /\ cn_stderr = <<>>
    /\ cn_exit = 0

\* the credentials are taken from the arguments and the environment
ConnCredentials ==
    /\ ConnFrame
    /\ cn_pc = "call"
    /\ LET c == Credentials(environ, url, api_key) IN
         IF c.exit
         THEN \* sys.exit(1) in validate_env
              /\ cn_stderr' = cn_stderr \o c.msgs
              /\ cn_exit' = 1
              /\ cn_pc' = "exited"
              /\ UNCHANGED <<url, api_key>>
         ELSE /\ url' = c.url
              /\ api_key' = c.api_key
              /\ cn_pc' = "resolved"
              /\ UNCHANGED <<cn_stderr, cn_exit>>
    /\ UNCHANGED <<cn_fn, headers_arg, verbose, cn_client, connect_args>>

\* headers are detected, the status is printed and the client is
\* connected; get_client yields it, connect_client returns it
ConnConnect ==
    /\ ConnFrame
    /\ cn_pc = "resolved"
    /\ LET hs == IF headers_arg.none THEN get_headers(environ) ELSE headers_arg
           detected == IF get_headers(environ).none THEN <<>> ELSE <<"Detected API keys">>
           before == IF verbose THEN detected \o <<"Connecting">> ELSE <<>>
       IN
         /\ headers_arg' = hs
         /\ connect_args' = [called |-> TRUE, cluster_url |-> url, api_key |-> api_key,
                             headers |-> hs]
         /\ \E conn_ok \in BOOLEAN :
              IF conn_ok
              THEN /\ cn_client' = "open"
                   /\ cn_stderr' = cn_stderr \o before
                                      \o (IF verbose THEN <<"Connected">> ELSE <<>>)
                   /\ cn_pc' = IF cn_fn = "get_client" THEN "yielded" ELSE "returned"
              ELSE /\ cn_stderr' = cn_stderr \o before
                   /\ cn_pc' = "raised"
                   /\ UNCHANGED cn_client
    /\ UNCHANGED <<cn_fn, url, api_key, verbose, cn_exit>>

\* the with-block of get_client ends: finally client.close()
ConnClose ==
    /\ ConnFrame
    /\ cn_pc = "yielded"
    /\ cn_client' = "closed"
    /\ cn_pc' = "closed"
    /\ UNCHANGED <<cn_fn, url, api_key, headers_arg, verbose, connect_args,
                   cn_stderr, cn_exit>>

ConnNext ==
    \/ ConnCredentials
    \/ ConnConnect
    \/ ConnClose

---------------------------------------------------------------------------
(* Specifications: one program runs, the others stay idle *)

FetchIdle ==
    /\ obj_id = PyNone
    /\ filters = FilterArg("None", JOther)
    /\ pc = "idle"
    /\ client = "none"
    /\ close_calls = 0
    /\ weaviate_filter = NoneF
    /\ parse_calls = 0
    /\ fetch_calls = 0
    /\ fetch_arg = NoneF
    /\ stderr = <<>>
    /\ exit_code = 0

FilterIdle ==
    /\ filter_json = FilterArg("None", JOther)
    /\ pf_pc = "idle"
    /\ pf_result = Returned(NoneF, <<>>)

ChunkIdle ==
    /\ document = <<>>
    /\ num_sentences = 1
    /\ overlap_arg = 0
    /\ overlap_sentences = 0
    /\ sentences = NoSentences
    /\ i = 0
    /\ chunks = <<>>
    /\ span_annotations = <<>>
    /\ ck_warned = 0
    /\ ck_pc = "idle"

HeadersIdle ==
    /\ environ = EmptyDict
    /\ hd_pc = "idle"
    /\ hd_idx = 0
    /\ headers = EmptyDict
    /\ hd_result = HeadersResult(EmptyDict)

ImportIdle ==
    /\ tenant_arg = PyNone
    /\ tenant = PyNone
    /\ coll = PyNone
    /\ is_multi_tenant = FALSE
    /\ im_data = <<>>
    /\ batch_size = 1
    /\ im_pc = "idle"
    /\ im_idx = 0
    /\ imported_count = 0
    /\ failed_count = 0
    /\ errors = <<>>
    /\ batch_objects = <<>>
    /\ with_tenant_calls = 0
    /\ im_stderr = <<>>
    /\ im_exit = 0
    /\ im_result = NoResult

ExampleIdle ==
    /\ collections = {}
    /\ domain = "academic"
    /\ nrows = 0
    /\ dataset_len = 1
    /\ ex_pc = "idle"
    /\ ex_row = 0
    /\ ex_added = 0
    /\ number_errors = 0
    /\ create_calls = <<>>
    /\ target_existed = FALSE
    /\ ex_exc = "none"
    /\ ex_stderr = <<>>
    /\ ex_runs = 0

ConnIdle ==
    /\ cn_fn = "get_client"
    /\ url = NoneStr
    /\ api_key = NoneStr
    /\ headers_arg = HeadersResult(EmptyDict)
    /\ verbose = FALSE
    /\ cn_pc = "idle"
    /\ cn_client = "none"
    /\ connect_args = NoConnect
    /\ cn_stderr = <<>>
    /\ cn_exit = 0

InitFetch == FetchInit /\ FilterIdle /\ ChunkIdle /\ HeadersIdle /\ ImportIdle /\ ExampleIdle /\ ConnIdle
InitFilter == FilterInit /\ FetchIdle /\ ChunkIdle /\ HeadersIdle /\ ImportIdle /\ ExampleIdle /\ ConnIdle
InitChunk == ChunkInit /\ FetchIdle /\ FilterIdle /\ HeadersIdle /\ ImportIdle /\ ExampleIdle /\ ConnIdle
InitHeaders == HeadersInit /\ FetchIdle /\ FilterIdle /\ ChunkIdle /\ ImportIdle /\ ExampleIdle /\ ConnIdle
InitImport == ImportInit /\ FetchIdle /\ FilterIdle /\ ChunkIdle /\ HeadersIdle /\ ExampleIdle /\ ConnIdle
InitExample == ExampleInit /\ FetchIdle /\ FilterIdle /\ ChunkIdle /\ HeadersIdle /\ ImportIdle /\ ConnIdle
InitConn == ConnInit /\ FetchIdle /\ FilterIdle /\ ChunkIdle /\ ImportIdle /\ ExampleIdle

\* fetch_filter.py main()
SpecFetch == InitFetch /\ [][FetchNext]_vars

\* parse_filters / parse_filter_item as a function of its argument
SpecFilter == InitFilter /\ [][FilterNext]_vars

\* chunk_by_sentences
SpecChunk == InitChunk /\ [][ChunkNext]_vars

\* chunk_by_sentences as a running call: a call that has not returned
\* takes its next step, which is weak fairness of each of its steps.  For
\* ChunkStart the enabling condition is written out: the step is possible
\* exactly when ck_pc = "call".
ChunkFairness ==
    /\ []<>(ck_pc # "call") \/ []<><<ChunkStart>>_vars
    /\ WF_vars(ChunkIter)
    /\ WF_vars(ChunkReturn)

SpecChunkLive == SpecChunk /\ ChunkFairness

\* get_headers
SpecHeaders == InitHeaders /\ [][HeadersNext]_vars


\* import.py main
SpecImport == InitImport /\ [][ImportNext]_vars


\* example_data.py main
SpecExample == InitExample /\ [][ExampleNext]_vars


\* weaviate_conn.py get_client and connect_client
SpecConn == InitConn /\ [][ConnNext]_vars

---------------------------------------------------------------------------
(* Properties of the filter compiler *)

RecognizedOperators == PlainOperators \cup {"contains_any", "contains_all", "is_none"}

\* a JSON object that is not an and/or node
IsPropertyObject(x) == x.t = "dict" /\ x.op \notin {"and", "or"}

\* a list, or an and/or object whose "filters" entry is a list
IsContainer(x) ==
    \/ x.t = "list"
    \/ x.t = "dict" /\ x.op \in {"and", "or"} /\ x.fk = "list"

\* the outcome of compiling each child of x on its own
Individually(x) == [n \in 1..Len(x.kids) |-> parse_filter_item(x.kids[n])]

CompiledNonNull(r) == r.exc = "no" /\ r.f.k # "none"

\* the compiled filters of the children that compile to a non-null filter
Survivors(x) ==
    LET kept == SelectSeq(Individually(x), CompiledNonNull)
    IN [n \in 1..Len(kept) |-> kept[n].f]

SomeChildRaises(x) == \E n \in 1..Len(x.kids) : Individually(x)[n].exc # "no"

RECURSIVE ConcatMsgs(_)
ConcatMsgs(rs) == IF rs = <<>> THEN <<>> ELSE Head(rs).msgs \o ConcatMsgs(Tail(rs))

IsLeafList(x) ==
    x.t = "list" /\ \A n \in 1..Len(x.kids) : IsPropertyObject(x.kids[n])

FilterDone == pf_pc \in {"returned", "raised"} /\ filter_json.kind = "json"

\* C1 as stated: every JSON list of property-filter objects compiles to
\* Filter.all_of of exactly the compiled filters of the elements that
\* compile to a non-null filter, in input order.
C1_AlwaysConjunction ==
    (/\ pf_pc = "returned"
     /\ filter_json.kind = "json"
     /\ IsLeafList(filter_json.data)
     /\ filter_json.data.kids # <<>>)
        => pf_result.f = AllOf(Survivors(filter_json.data))

\* C1 amended: for a JSON list of property-filter objects none of which is
\* fatal, the result is Filter.all_of of exactly the compiled filters of the
\* elements that compile to a non-null filter, in input order, when there
\* is at least one such element, and null when there is none; a fatal
\* element ends the call with typer.Exit.
C1_ConjunctionOfSurvivors ==
    (FilterDone /\ IsLeafList(filter_json.data)) =>
        IF SomeChildRaises(filter_json.data)
        THEN pf_pc = "raised" /\ pf_result.exc = "Exit"
        ELSE /\ pf_pc = "returned"
             /\ pf_result.f = IF Survivors(filter_json.data) = <<>> THEN NoneF
                              ELSE AllOf(Survivors(filter_json.data))

C1_Witness ==
    /\ pf_pc = "returned"
    /\ filter_json = FilterArg("json", ExampleLongList)
    /\ pf_result.f = AllOf(<<ByProperty("a", "equal", "1"), ByProperty("b", "like", "x"),
                             ByProperty("b", "contains_all", "[1]")>>)

\* C2: a list, an "and" object and an "or" object compile every child,
\* drop the children that compile to null, return null when no child
\* survives and otherwise the conjunction (list, "and") or disjunction
\* ("or") of exactly the surviving children; the call raises only when a
\* child does.
C2_ContainersDropNulls ==
    (FilterDone /\ IsContainer(filter_json.data)) =>
        LET x == filter_json.data IN
        IF SomeChildRaises(x) THEN pf_pc = "raised"
        ELSE /\ pf_pc = "returned"
             /\ pf_result.msgs = ConcatMsgs(Individually(x))
             /\ pf_result.f =
                  IF Survivors(x) = <<>> THEN NoneF
                  ELSE IF x.t = "dict" /\ x.op = "or" THEN AnyOf(Survivors(x))
                  ELSE AllOf(Survivors(x))

C2_Witness ==
    /\ pf_pc = "returned"
    /\ filter_json = FilterArg("json", ExampleUnknownNested)
    /\ pf_result.f.k = "or"
    /\ Len(pf_result.f.subs) = 2

\* the leaf predicates of a compiled filter
RECURSIVE LeafFilters(_)
LeafFilters(f) ==
    IF f.k = "leaf" THEN {f}
    ELSE UNION { LeafFilters(f.subs[n]) : n \in 1..Len(f.subs) }

\* Whether a compiled filter matches an object on which exactly the leaf
\* predicates in T hold; None is "no filter".
RECURSIVE EvalFilter(_, _)
EvalFilter(f, T) ==
    IF f.k = "none" THEN TRUE
    ELSE IF f.k = "leaf" THEN f \in T
    ELSE IF f.k = "and" THEN \A n \in 1..Len(f.subs) : EvalFilter(f.subs[n], T)
    ELSE \E n \in 1..Len(f.subs) : EvalFilter(f.subs[n], T)

CompilesToNull(x) == parse_filter_item(x).exc = "no" /\ parse_filter_item(x).f.k = "none"

\* The input tree read with every null-compiling child as "always true"
RECURSIVE EvalNullTrue(_, _)
EvalNullTrue(x, T) ==
    IF CompilesToNull(x) THEN TRUE
    ELSE IF x.t = "dict" /\ x.op = "or"
         THEN \E n \in 1..Len(x.kids) : EvalNullTrue(x.kids[n], T)
    ELSE IF x.t = "list" \/ (x.t = "dict" /\ x.op = "and")
         THEN \A n \in 1..Len(x.kids) : EvalNullTrue(x.kids[n], T)
    ELSE parse_filter_item(x).f \in T

\* The input tree read with every null-compiling child left out
RECURSIVE EvalNullOmitted(_, _)
EvalNullOmitted(x, T) ==
    IF CompilesToNull(x) THEN TRUE
    ELSE IF x.t = "dict" /\ x.op = "or"
         THEN \E n \in 1..Len(x.kids) :
                 ~CompilesToNull(x.kids[n]) /\ EvalNullOmitted(x.kids[n], T)
    ELSE IF x.t = "list" \/ (x.t = "dict" /\ x.op = "and")
         THEN \A n \in 1..Len(x.kids) :
                 CompilesToNull(x.kids[n]) \/ EvalNullOmitted(x.kids[n], T)
    ELSE parse_filter_item(x).f \in T

\* C3 as stated: the compiled predicate equals the input tree evaluated
\* with each null-compiling child replaced by TRUE, under OR as under AND.
C3_NullChildIsTrue ==
    (pf_pc = "returned" /\ filter_json.kind = "json") =>
        \A T \in SUBSET LeafFilters(pf_result.f) :
            EvalFilter(pf_result.f, T) = EvalNullTrue(filter_json.data, T)

\* C3 amended: for every filter tree that compiles without a fatal error
\* and every truth assignment to its leaf predicates, the compiled output
\* evaluates as the input tree with every null-compiling child left out of
\* its parent (vacuous under AND, no alternative under OR); a tree that
\* compiles to null is no filter and matches everything.
C3_NullChildIsOmitted ==
    (pf_pc = "returned" /\ filter_json.kind = "json") =>
        \A T \in SUBSET LeafFilters(pf_result.f) :
            EvalFilter(pf_result.f, T) = EvalNullOmitted(filter_json.data, T)

C3_Witness ==
    /\ pf_pc = "returned"
    /\ filter_json = FilterArg("json", JOr(<<LeafUnknown, LeafA>>))
    /\ ~EvalFilter(pf_result.f, {})
    /\ EvalFilter(pf_result.f, {ByProperty("a", "equal", "1")})

\* a leaf with a property and contains_any/contains_all whose value is
\* not a list
IsFatalLeaf(x) ==
    /\ IsPropertyObject(x)
    /\ Truthy(x.prop)
    /\ x.op \in {"contains_any", "contains_all"}
    /\ ~IsList(x.val)

\* such a leaf somewhere in the tree: at the top, in a list, under and/or
RECURSIVE HasFatalLeaf(_)
HasFatalLeaf(x) ==
    IF IsContainer(x) THEN \E n \in 1..Len(x.kids) : HasFatalLeaf(x.kids[n])
    ELSE IsFatalLeaf(x)

InRange(msg, msgs) == \E n \in 1..Len(msgs) : msgs[n] = msg

\* C4: on the path of main that compiles --filters, a tree holding a
\* contains_any/contains_all leaf with a non-list value, wherever the leaf
\* sits, ends the run with a reported error and exit code 1; no filter is
\* returned and fetch_objects is never called.
C4_FatalLeafStopsRun ==
    (~Truthy(obj_id) /\ filters.kind = "json" /\ HasFatalLeaf(filters.data)) =>
        /\ fetch_calls = 0
        /\ weaviate_filter = NoneF
        /\ pc \notin {"parsed", "fetched"}
        /\ parse_calls > 0 => /\ pc = "done"
                              /\ exit_code = 1
                              /\ InRange("Error", stderr)
        /\ (pc = "done" => exit_code = 1)

C4_Witness ==
    /\ pc = "done"
    /\ parse_calls = 1
    /\ filters = FilterArg("json", ExampleFatalNested)
    /\ exit_code = 1
    /\ InRange("Error: must be a list", stderr)

\* a leaf with a property and an operator that is none of the ten
IsUnknownLeaf(x) ==
    /\ IsPropertyObject(x)
    /\ Truthy(x.prop)
    /\ Truthy(x.op)
    /\ x.op \notin RecognizedOperators

IsKnown(x) == ~IsUnknownLeaf(x)

\* the tree without its unknown-operator leaves
RECURSIVE WithoutUnknown(_)
WithoutUnknown(x) ==
    IF IsUnknownLeaf(x) THEN JOther
    ELSE IF IsContainer(x)
         THEN LET known == SelectSeq(x.kids, IsKnown)
              IN [x EXCEPT !.kids = [n \in 1..Len(known) |-> WithoutUnknown(known[n])]]
    ELSE x

RECURSIVE CountUnknown(_)
CountUnknown(x) ==
    IF IsUnknownLeaf(x) THEN 1
    ELSE IF IsContainer(x) /\ x.kids # <<>>
         THEN CountUnknown(Head(x.kids)) + CountUnknown([x EXCEPT !.kids = Tail(x.kids)])
    ELSE 0

IsWarning(msg) == msg = "Warning: Unknown operator"

\* C5: unknown-operator leaves are dropped with one warning each and
\* nothing else changes: the call ends as it does on the tree without
\* them (it raises only if that tree raises) and returns the same filter,
\* so every recognized filter is still in the result.
C5_UnknownOperatorDropped ==
    FilterDone =>
        LET clean == parse_filter_item(WithoutUnknown(filter_json.data)) IN
        /\ pf_result.exc = clean.exc
        /\ pf_result.f = clean.f
        /\ pf_result.exc = "no" =>
              /\ Len(SelectSeq(pf_result.msgs, IsWarning)) = CountUnknown(filter_json.data)
              /\ clean.msgs = <<>>

C5_Witness ==
    /\ pf_pc = "returned"
    /\ filter_json = FilterArg("json", ExampleUnknownNested)
    /\ pf_result.msgs = <<"Warning: Unknown operator">>
    /\ pf_result.f = AnyOf(<<AllOf(<<ByProperty("a", "equal", "1"), ByProperty("b", "like", "x")>>),
                             ByProperty("b", "contains_all", "[1]")>>)

\* neither a list, nor an and/or object with a "filters" list, nor a leaf
\* object with a property and an operator
IsOtherShape(x) ==
    \/ x.t = "other"
    \/ x.t = "dict" /\ x.op \in {"and", "or"} /\ x.fk # "list"
    \/ x.t = "dict" /\ x.op \notin {"and", "or"} /\ (~Truthy(x.prop) \/ ~Truthy(x.op))

\* C6 as stated: every such value compiles to null without raising.
C6_OtherShapesCompileToNull ==
    (FilterDone /\ IsOtherShape(filter_json.data)) =>
        pf_pc = "returned" /\ pf_result.f = NoneF

---------------------------------------------------------------------------
(* Properties of the chunker *)

ChunkDone == ck_pc = "done"

\* the document has at least one sentence boundary
BoundariesExist == FindIter(document, 0) # <<>>

AllSpace(doc, from, to) == \A k \in from..(to - 1) : IsSpace(CharAt(doc, k))

NoOverlapCall == ChunkDone /\ num_sentences >= 1 /\ overlap_arg = 0 /\ BoundariesExist

\* C8 as stated: with overlap 0 the spans tile [0, len(document)): the
\* first starts at 0, each starts where the previous one ends, the last
\* ends at len(document).
C8_SpansTile ==
    NoOverlapCall =>
        /\ span_annotations # <<>>
        /\ span_annotations[1][1] = 0
        /\ \A n \in 1..(Len(span_annotations) - 1) :
              span_annotations[n + 1][1] = span_annotations[n][2]
        /\ span_annotations[Len(span_annotations)][2] = Len(document)

\* C8 amended: with overlap 0, k >= 1 and at least one sentence boundary,
\* the spans cover [0, len(document)) except for boundary whitespace: the
\* first span starts at 0, the spans do not overlap, each span starts
\* after the previous one ends with only whitespace in between, and only
\* whitespace follows the last span.
C8_SpansTileUpToWhitespace ==
    NoOverlapCall =>
        /\ span_annotations # <<>>
        /\ span_annotations[1][1] = 0
        /\ \A n \in 1..Len(span_annotations) :
              span_annotations[n][1] < span_annotations[n][2]
        /\ \A n \in 1..(Len(span_annotations) - 1) :
              /\ span_annotations[n][2] < span_annotations[n + 1][1]
              /\ AllSpace(document, span_annotations[n][2], span_annotations[n + 1][1])
        /\ span_annotations[Len(span_annotations)][2] <= Len(document)
        /\ AllSpace(document, span_annotations[Len(span_annotations)][2], Len(document))

C8_Witness ==
    /\ ChunkDone
    /\ document = <<" ", "a", ".", " ", " ", "a", ".", " ">>
    /\ num_sentences = 1
    /\ overlap_arg = 0
    /\ span_annotations = <<<<0, 3>>, <<5, 7>>>>

ABCCall == ChunkDone /\ document = DocABC /\ num_sentences = 2 /\ overlap_arg = 1

\* C9 as stated: chunk_by_sentences("A. B. C.", 2, 1) produces the chunk
\* sequence {A,B}, {B,C}.
C9_TwoChunks ==
    ABCCall =>
        /\ span_annotations = <<<<0, 5>>, <<3, 8>>>>
        /\ chunks = <<<<"A", ".", " ", "B", ".">>, <<"B", ".", " ", "C", ".">>>>

\* C9 amended: chunk_by_sentences("A. B. C.", 2, 1) produces three chunks,
\* {A,B}, {B,C} and {C}: "A. B." at (0,5), "B. C." at (3,8) and "C." at
\* (6,8); consecutive chunks overlap by one sentence and each chunk's text
\* is the substring of the input at its span.
C9_ThreeChunks ==
    ABCCall =>
        /\ sentences.spans = <<<<0, 2>>, <<3, 5>>, <<6, 8>>>>
        /\ span_annotations = <<<<0, 5>>, <<3, 8>>, <<6, 8>>>>
        /\ chunks = <<<<"A", ".", " ", "B", ".">>, <<"B", ".", " ", "C", ".">>, <<"C", ".">>>>
        /\ \A n \in 1..Len(chunks) :
              chunks[n] = SubSeq(document, span_annotations[n][1] + 1, span_annotations[n][2])

C9_Witness == ABCCall /\ Len(chunks) = 3 /\ ck_warned = 0

\* the sentences (indices into the segmenter's result) inside a chunk span
SentencesIn(span) ==
    { n \in 1..Len(sentences.spans) :
        sentences.spans[n][1] >= span[1] /\ sentences.spans[n][2] <= span[2] }

IsRun(S) == S # {} /\ \A a \in S, b \in S : \A c \in a..b : c \in S

Smaller(a, b) == IF a < b THEN a ELSE b

\* every chunk is a run of num_sentences sentences, or fewer when it
\* reaches the last sentence
ChunksAreRuns ==
    \A n \in 1..Len(span_annotations) :
        LET S == SentencesIn(span_annotations[n]) IN
        /\ IsRun(S)
        /\ span_annotations[n][1] = sentences.spans[CHOOSE a \in S : \A b \in S : a <= b][1]
        /\ span_annotations[n][2] = sentences.spans[CHOOSE a \in S : \A b \in S : a >= b][2]
        /\ \/ Cardinality(S) = num_sentences
           \/ Cardinality(S) < num_sentences /\ Len(sentences.spans) \in S

InRangeOverlap == ChunkDone /\ 0 <= overlap_arg /\ overlap_arg < num_sentences

\* C10 as stated: every chunk is such a run and every two adjacent chunks
\* share exactly overlap_sentences sentences.
C10_ExactOverlap ==
    InRangeOverlap =>
        /\ ChunksAreRuns
        /\ \A n \in 1..(Len(span_annotations) - 1) :
              Cardinality(SentencesIn(span_annotations[n]) \cap
                          SentencesIn(span_annotations[n + 1])) = overlap_arg

\* C10 amended: every chunk is such a run and every two adjacent chunks
\* share exactly overlap_sentences sentences, except that a later chunk
\* with fewer than overlap_sentences sentences (a window near the end of
\* the document) is shared whole: they share min(overlap_sentences, size
\* of the later chunk) sentences.
C10_OverlapUpToChunkSize ==
    InRangeOverlap =>
        /\ ChunksAreRuns
        /\ \A n \in 1..(Len(span_annotations) - 1) :
              Cardinality(SentencesIn(span_annotations[n]) \cap
                          SentencesIn(span_annotations[n + 1]))
                = Smaller(overlap_arg, Cardinality(SentencesIn(span_annotations[n + 1])))

C10_Witness ==
    /\ ChunkDone
    /\ document = <<".", " ", ".", " ", ".">>
    /\ num_sentences = 3
    /\ overlap_arg = 2
    /\ span_annotations = <<<<0, 5>>, <<2, 5>>, <<4, 5>>>>


\* the call has computed its sentences: it is in the loop or has returned
ChunkRunning == ck_pc \in {"loop", "done"}

\* C11: the chunk list and the span list have the same length, and the
\* n-th chunk text is the document between the offsets of the n-th span,
\* character for character, for every document and every parameter choice.
C11_ChunkIsDocumentSlice ==
    ChunkRunning =>
        /\ Len(chunks) = Len(span_annotations)
        /\ \A n \in 1..Len(span_annotations) :
              LET start == span_annotations[n][1]
                  end == span_annotations[n][2] IN
              /\ 0 <= start /\ start <= end /\ end <= Len(document)
              /\ Len(chunks[n]) = end - start
              /\ \A k \in 0..(end - start - 1) :
                    chunks[n][k + 1] = CharAt(document, start + k)

C11_Witness ==
    /\ ChunkDone
    /\ document = <<" ", "a", ".", " ", " ", "a", ".", " ">>
    /\ num_sentences = 2
    /\ overlap_arg = 1
    /\ chunks = <<<<" ", "a", ".", " ", " ", "a", ".">>, <<"a", ".">>>>

ValidSpan(span, doc) == 0 <= span[1] /\ span[1] < span[2] /\ span[2] <= Len(doc)

\* C12: for a non-empty document and num_sentences >= 1, every span of the
\* segmenter and every span of chunk_by_sentences satisfies
\* 0 <= start < end <= len(document).
C12_SpansWithinDocument ==
    (ChunkRunning /\ document # <<>> /\ num_sentences >= 1) =>
        /\ \A n \in 1..Len(sentences.spans) : ValidSpan(sentences.spans[n], document)
        /\ \A n \in 1..Len(span_annotations) : ValidSpan(span_annotations[n], document)

C12_Witness ==
    /\ ChunkDone
    /\ document = <<"\n", "!", "\t", "?", " ", ".", "a", " ", "a">>
    /\ num_sentences = 2
    /\ overlap_arg = 0
    /\ sentences.spans = <<<<0, 2>>, <<3, 4>>, <<5, 9>>>>
    /\ span_annotations = <<<<0, 4>>, <<5, 9>>>>

\* C13: for num_sentences >= 1 and every overlap_sentences, the start
\* offsets of the returned spans never decrease in output order.
C13_StartsNonDecreasing ==
    (ChunkRunning /\ num_sentences >= 1) =>
        \A n \in 1..(Len(span_annotations) - 1) :
            span_annotations[n][1] <= span_annotations[n + 1][1]

C13_Witness ==
    /\ ChunkDone
    /\ document = <<"a", ".", " ", "a", ".", " ", "a", ".", " ", "a", ".", " ", "a">>
    /\ num_sentences = 2
    /\ overlap_arg = 3
    /\ span_annotations = <<<<0, 5>>, <<3, 8>>, <<6, 11>>, <<9, 13>>, <<12, 13>>>>

\* C14: when overlap_sentences >= num_sentences (num_sentences >= 1) the
\* call prints one warning, continues with overlap num_sentences - 1 and
\* returns exactly what chunk_by_sentences(document, num_sentences,
\* num_sentences - 1) returns.
C14_ClampedToNumMinusOne ==
    (ChunkRunning /\ num_sentences >= 1 /\ overlap_arg >= num_sentences) =>
        /\ ck_warned = 1
        /\ overlap_sentences = num_sentences - 1
        /\ ChunkDone =>
              LET r == chunk_by_sentences(document, num_sentences, num_sentences - 1) IN
              /\ chunks = r.chunks
              /\ span_annotations = r.spans

C14_Witness ==
    /\ ChunkDone
    /\ document = <<"a", "?", " ", "a", "!", "\n", "\t", "a">>
    /\ num_sentences = 2
    /\ overlap_arg = 2
    /\ ck_warned = 1
    /\ span_annotations = <<<<0, 5>>, <<3, 8>>, <<7, 8>>>>

\* [p, q) is a maximal whitespace run of doc whose immediately preceding
\* character is one of '.', '?', '!'
IsBoundaryRun(doc, p, q) ==
    /\ 1 <= p /\ p < q /\ q <= Len(doc)
    /\ CharAt(doc, p - 1) \in {".", "?", "!"}
    /\ \A k \in p..(q - 1) : CharAt(doc, k) \in {" ", "\n", "\t"}
    /\ q = Len(doc) \/ CharAt(doc, q) \notin {" ", "\n", "\t"}

BoundaryRuns(doc) ==
    { r \in (1..Len(doc)) \X (1..Len(doc)) : IsBoundaryRun(doc, r[1], r[2]) }

\* the offset ranges between consecutive boundaries, the start and the end
\* of the document counting as boundaries
RangesBetween(doc, runs) ==
    LET starts == {0} \cup { r[2] : r \in runs }
        ends == { r[1] : r \in runs } \cup {Len(doc)}
    IN { sp \in starts \X ends :
           /\ sp[1] < sp[2]
           /\ \A e \in ends : e > sp[1] => sp[2] <= e }

SeqRange(seq) == { seq[n] : n \in 1..Len(seq) }

\* C15: the segmenter's matches are exactly the maximal whitespace runs
\* preceded by a terminator, and the sentence spans are exactly the offset
\* ranges of the document between consecutive such runs, in document
\* order; no other whitespace and no terminator without whitespace after
\* it ends a sentence.
C15_SplitsExactlyAtBoundaries ==
    (ChunkRunning /\ document # <<>>) =>
        /\ SeqRange(FindIter(document, 0)) = BoundaryRuns(document)
        /\ SeqRange(sentences.spans) = RangesBetween(document, BoundaryRuns(document))
        /\ Len(sentences.texts) = Len(sentences.spans)
        /\ \A n \in 1..(Len(sentences.spans) - 1) :
              sentences.spans[n][2] < sentences.spans[n + 1][1]

C15_Witness ==
    /\ ChunkDone
    /\ document = <<"\n", "!", "\t", "?", " ", ".", "a", " ", "a">>
    /\ num_sentences = 1
    /\ overlap_arg = 0 - 1
    /\ FindIter(document, 0) = <<<<2, 3>>, <<4, 5>>>>
    /\ sentences.spans = <<<<0, 2>>, <<3, 4>>, <<5, 9>>>>

\* C16: a non-empty document without a sentence boundary (whitespace-only
\* documents included) is one sentence with span (0, len(document)), and
\* with num_sentences >= 1 the call returns exactly one chunk, the whole
\* document.
C16_NoBoundaryOneChunk ==
    (ChunkRunning /\ document # <<>> /\ BoundaryRuns(document) = {}) =>
        /\ Len(sentences.texts) = 1
        /\ sentences.spans = <<<<0, Len(document)>>>>
        /\ (ChunkDone /\ num_sentences >= 1) =>
              /\ chunks = <<document>>
              /\ span_annotations = <<<<0, Len(document)>>>>

C16_Witness ==
    /\ ChunkDone
    /\ document = <<" ", " ", " ">>
    /\ num_sentences = 3
    /\ overlap_arg = 1
    /\ sentences.texts = <<document>>
    /\ chunks = <<document>>

\* C17: for the empty document the segmenter returns no sentence and the
\* call returns an empty chunk sequence and an empty span sequence, for
\* every num_sentences and overlap_sentences.
C17_EmptyDocumentNoChunks ==
    (ChunkRunning /\ document = <<>>) =>
        /\ sentences = NoSentences
        /\ chunks = <<>>
        /\ span_annotations = <<>>

C17_Witness ==
    /\ ChunkDone
    /\ document = <<>>
    /\ num_sentences = 2
    /\ overlap_arg = 0
    /\ chunks = <<>>
    /\ span_annotations = <<>>

\* iterations of the while loop so far: one per emitted chunk, and one
\* more when the loop was left by break
Iterations ==
    Len(chunks) + (IF ck_pc = "done" /\ i < Len(sentences.texts) THEN 1 ELSE 0)

\* C18: for every document and all integers num_sentences and
\* overlap_sentences (zero, negative, overlap >= num_sentences included)
\* every loop iteration either breaks or advances the window index by at
\* least 1, the loop runs at most as many iterations as there are
\* sentences, and the call returns.
C18_RunsToCompletion ==
    /\ [][ChunkIter => (i' >= i + 1 \/ ck_pc' = "done")]_vars
    /\ [](Iterations <= Len(sentences.texts))
    /\ <>(ck_pc = "done")

C18_Witness ==
    /\ ChunkDone
    /\ document = <<"a", ".", " ", "a", ".", " ", "a", ".", " ", "a", ".", " ", "a">>
    /\ num_sentences = 0 - 1
    /\ overlap_arg = 3
    /\ overlap_sentences = 0 - 2
    /\ i = 1
    /\ Len(chunks) = 1

---------------------------------------------------------------------------
(* Properties of get_client as used by main() *)

\* connect_to_weaviate_cloud returned a client: get_client printed
\* "Connected." and yielded it
Established == InRange("Connected", stderr)

\* C19: once the connection is established client.close() is called
\* exactly once on every way out of the with-body (normal completion,
\* typer.Exit, any other exception), only when the body is over, and it
\* is never called when the connection was not established.
C19_ClientClosedOnce ==
    /\ close_calls = (IF client = "closed" THEN 1 ELSE 0)
    /\ client = "closed" => pc = "done"
    /\ (pc = "done" /\ Established) => client = "closed"
    /\ Established <=> client # "none"
    /\ ~Established => close_calls = 0

C19_Witness ==
    /\ pc = "done"
    /\ exit_code = 1
    /\ Established
    /\ InRange("Error: Collection not found", stderr)
    /\ client = "closed"
    /\ close_calls = 1

---------------------------------------------------------------------------
(* The sliding window *)

\* C20: with n sentences, k = num_sentences >= 1 and step s = k - overlap
\* (overlap after clamping), s >= 1 and the chunks are the windows that
\* start at sentence indices 0, s, 2s, ... below n, in that order: the
\* j-th covers sentences [j*s, min(j*s + k, n)), its span runs from the
\* start of the first to the end of the last of them, and there are
\* ceil(n / s) chunks.
C20_WindowsAtMultiplesOfStep ==
    (ChunkRunning /\ num_sentences >= 1) =>
        LET n == Len(sentences.spans)
            k == num_sentences
            s == k - overlap_sentences
        IN /\ overlap_sentences = Smaller(overlap_arg, k - 1)
           /\ s >= 1
           /\ i = Len(span_annotations) * s
           /\ Len(chunks) = Len(span_annotations)
           /\ \A j \in 0..(Len(span_annotations) - 1) :
                 /\ j * s < n
                 /\ span_annotations[j + 1] =
                       <<sentences.spans[j * s + 1][1],
                         sentences.spans[Smaller(j * s + k, n)][2]>>
           /\ ChunkDone => Len(span_annotations) = (n + s - 1) \div s

C20_Witness ==
    /\ ChunkDone
    /\ document = <<"a", ".", " ", "a", ".", " ", "a", ".", " ", "a", ".", " ", "a">>
    /\ num_sentences = 1
    /\ overlap_arg = 0 - 1
    /\ Len(sentences.spans) = 5
    /\ span_annotations = <<<<0, 2>>, <<6, 8>>, <<12, 13>>>>

---------------------------------------------------------------------------
(* Properties of get_headers *)

\* empty or only whitespace
IsBlank(v) == \A n \in 1..Len(v) : v[n] \in {" ", "\n", "\t"}

\* the value with the whitespace at both ends removed
Trimmed(v) ==
    LET solid == { n \in 1..Len(v) : v[n] \notin {" ", "\n", "\t"} }
        first == CHOOSE a \in solid : \A b \in solid : a <= b
        last == CHOOSE a \in solid : \A b \in solid : a >= b
    IN IF solid = {} THEN <<>> ELSE SubSeq(v, first, last)

\* positions, among the first upto items of API_KEY_MAP, of the variables
\* of header h that hold a non-blank value
SetVarsOf(h, upto) ==
    { n \in 1..upto :
        /\ API_KEY_MAP[n][2] = h
        /\ API_KEY_MAP[n][1] \in DOMAIN environ
        /\ ~IsBlank(environ[API_KEY_MAP[n][1]]) }

HeaderNames == { API_KEY_MAP[n][2] : n \in 1..Len(API_KEY_MAP) }

\* C21: after any number of visited items the dict holds exactly the
\* headers for which a visited variable has a non-blank value, each with
\* the trimmed value of the first such variable in API_KEY_MAP order (the
\* APIKEY variant when both variants are non-blank), so a value once
\* stored is never overwritten and blank variables contribute nothing;
\* the result is None exactly when no known variable has a non-blank
\* value.
C21_FirstNonBlankVariantWins ==
    hd_pc \in {"loop", "done"} =>
        /\ DOMAIN headers = { h \in HeaderNames : SetVarsOf(h, hd_idx) # {} }
        /\ \A h \in DOMAIN headers :
              LET first == CHOOSE a \in SetVarsOf(h, hd_idx) :
                               \A b \in SetVarsOf(h, hd_idx) : a <= b
              IN headers[h] = Trimmed(environ[API_KEY_MAP[first][1]])
        /\ hd_pc = "done" =>
              /\ hd_idx = Len(API_KEY_MAP)
              /\ hd_result.hs = headers
              /\ hd_result.none <=>
                    \A h \in HeaderNames : SetVarsOf(h, Len(API_KEY_MAP)) = {}

C21_Witness ==
    /\ hd_pc = "done"
    /\ "ANTHROPIC_APIKEY" \in DOMAIN environ
    /\ "ANTHROPIC_API_KEY" \in DOMAIN environ
    /\ "XAI_API_KEY" \in DOMAIN environ
    /\ environ["ANTHROPIC_APIKEY"] = <<" ", "j", "\n">>
    /\ environ["ANTHROPIC_API_KEY"] = <<"k">>
    /\ environ["XAI_API_KEY"] = <<" ">>
    /\ ~hd_result.none
    /\ DOMAIN hd_result.hs = {"X-Anthropic-Api-Key"}
    /\ hd_result.hs["X-Anthropic-Api-Key"] = <<"j">>

---------------------------------------------------------------------------
(* Properties of import.py *)

ImportMsg(msg) == \E n \in 1..Len(im_stderr) : im_stderr[n] = msg

\* C22: the tenant decision precedes every add.  A multi-tenant collection
\* without a tenant ends the run with exit code 1 and an empty batch; a
\* tenant given for a collection that is not multi-tenant is warned about
\* and dropped, so every object goes to the untenanted collection and the
\* reported tenant is null; objects go through with_tenant exactly when the
\* collection is multi-tenant and a tenant was given.
C22_TenantDecidedBeforeBatch ==
    /\ (im_pc \in {"connected", "exists"}) => batch_objects = <<>>
    /\ (is_multi_tenant /\ ~Truthy(tenant_arg)) =>
          /\ batch_objects = <<>>
          /\ with_tenant_calls = 0
          /\ im_pc \notin {"batch"}
          /\ im_pc = "done" => im_exit = 1 /\ ~im_result.reported
    /\ (~is_multi_tenant /\ Truthy(tenant_arg) /\ im_pc \in {"batch", "done"}
            /\ ~ImportMsg("Error: Collection does not exist")) =>
          /\ ImportMsg("Warning: not multi-tenant, --tenant ignored")
          /\ tenant = PyNone
          /\ coll = PyNone
          /\ with_tenant_calls = 0
          /\ \A n \in 1..Len(batch_objects) : batch_objects[n].via = PyNone
          /\ im_result.reported => im_result.tenant = PyNone
    /\ (with_tenant_calls > 0 \/ \E n \in 1..Len(batch_objects) : batch_objects[n].via # PyNone) =>
          /\ is_multi_tenant
          /\ Truthy(tenant_arg)
          /\ with_tenant_calls = 1
          /\ \A n \in 1..Len(batch_objects) : batch_objects[n].via = tenant_arg
    /\ (is_multi_tenant /\ Truthy(tenant_arg)) =>
          /\ im_pc = "batch" => with_tenant_calls = 1 /\ coll = tenant_arg
          /\ \A n \in 1..Len(batch_objects) : batch_objects[n].via = tenant_arg

C22_Witness ==
    /\ im_pc = "done"
    /\ ~is_multi_tenant
    /\ tenant_arg = "tenantA"
    /\ im_result.reported
    /\ im_result.tenant = PyNone
    /\ Len(batch_objects) = 2

\* C23 as stated: the reported counts satisfy 0 <= imported <=
\* total_objects, failed >= 0 and imported + failed = total_objects.
C23_CountsConsistent ==
    im_result.reported =>
        /\ 0 <= im_result.imported
        /\ im_result.imported <= im_result.total_objects
        /\ im_result.failed >= 0
        /\ im_result.imported + im_result.failed = im_result.total_objects

---------------------------------------------------------------------------
(* Properties of example_data.py main *)

\* C24 as stated: every create call is for a collection that did not
\* exist, and a run whose own collection already existed returns without
\* creating or importing.
C24_CreationGuardedByOwnCollection ==
    /\ \A n \in 1..Len(create_calls) : ~create_calls[n].existed
    /\ (domain \in Domains /\ target_existed /\ ex_pc # "create") =>
          /\ ex_pc = "returned"
          /\ ex_exc = "none"
          /\ ex_added = 0

\* C25 as stated: for nrows >= 1 and a non-empty dataset the loop, once
\* entered, never raises, and absent batch errors the function returns
\* having visited each of the first min(nrows, len(dataset)) rows.
C25_LoopVisitsEveryRow ==
    (ex_runs > 0 /\ domain \in Domains /\ nrows >= 1 /\ dataset_len >= 1
        /\ create_calls # <<>> /\ number_errors = 0) =>
        /\ ex_exc # "ZeroDivisionError"
        /\ (ex_pc = "returned" /\ ex_stderr[Len(ex_stderr)] = "Created collection") =>
              /\ ex_row = PyMin(nrows, dataset_len)
              /\ ex_added = PyMin(nrows, dataset_len)

---------------------------------------------------------------------------
(* Properties of get_client and connect_client *)

EnvSet(name) == name \in DOMAIN environ /\ ~IsBlank(environ[name])

\* C26 as stated: a call with an explicit url and api_key = None is not
\* ended by the credential validation whenever WEAVIATE_API_KEY is set, nor
\* a call with an explicit api_key and url = None whenever WEAVIATE_URL is
\* set.  (On the exit path url and api_key still hold the arguments.)
C26_OnlyMissingCredentialRequired ==
    cn_pc = "exited" =>
        ~(\/ TruthyStr(url) /\ api_key.none /\ EnvSet("WEAVIATE_API_KEY")
          \/ TruthyStr(api_key) /\ url.none /\ EnvSet("WEAVIATE_URL"))

---------------------------------------------------------------------------
(* Coverage of the document by the chunks *)

\* the chunks (indices) whose span holds the whole of sentence n
ChunksHolding(n) == { c \in 1..Len(span_annotations) : n \in SentencesIn(span_annotations[c]) }

\* the chunks (indices) whose span holds the character at offset k
ChunksOver(k) ==
    { c \in 1..Len(span_annotations) :
        span_annotations[c][1] <= k /\ k < span_annotations[c][2] }

\* C27: for 0 <= overlap_sentences < num_sentences every sentence of the
\* segmenter lies inside at least one chunk, and inside exactly one when
\* overlap_sentences = 0; with overlap 0 every non-whitespace character of
\* the document lies in exactly one chunk span and every character outside
\* all chunk spans is whitespace.
C27_EverySentenceInAChunk ==
    InRangeOverlap =>
        /\ \A n \in 1..Len(sentences.spans) :
              /\ ChunksHolding(n) # {}
              /\ overlap_arg = 0 => Cardinality(ChunksHolding(n)) = 1
        /\ overlap_arg = 0 =>
              \A k \in 0..(Len(document) - 1) :
                  /\ ~IsSpace(CharAt(document, k)) => Cardinality(ChunksOver(k)) = 1
                  /\ ChunksOver(k) = {} => IsSpace(CharAt(document, k))

C27_Witness ==
    /\ ChunkDone
    /\ document = DocABC
    /\ num_sentences = 2
    /\ overlap_arg = 0
    /\ span_annotations = <<<<0, 5>>, <<6, 8>>>>
    /\ ChunksOver(5) = {}
    /\ ChunksHolding(3) = {2}

---------------------------------------------------------------------------
(* main with --id *)

FilterMessages ==
    {"Error parsing filters JSON", "Error: must be a list", "Warning: Unknown operator"}

\* C28: with a (non-empty) --id the --filters argument is never parsed or
\* applied: parse_filters and fetch_objects are not called, nothing the
\* compiler prints appears, and once the collection is known to exist the
\* run ends with exit code 1 only when the object is not found, whatever
\* --filters holds; parse_filters is called only on the path without --id.
C28_IdIgnoresFilters ==
    /\ Truthy(obj_id) =>
          /\ parse_calls = 0
          /\ fetch_calls = 0
          /\ weaviate_filter = NoneF
          /\ fetch_arg = NoneF
          /\ pc # "parsed"
          /\ \A n \in 1..Len(stderr) : stderr[n] \notin FilterMessages
          /\ (pc = "done" /\ InRange("Fetching object", stderr)) =>
                (exit_code = 1 <=> InRange("Error: Object not found", stderr))
          /\ pc = "fetched" => InRange("Fetching object", stderr)
    /\ parse_calls > 0 => ~Truthy(obj_id)

C28_Witness ==
    /\ pc = "done"
    /\ obj_id = "uuid"
    /\ filters = FilterArg("json", ExampleFatalNested)
    /\ exit_code = 0
    /\ InRange("Fetching object", stderr)
    /\ parse_calls = 0

---------------------------------------------------------------------------
(* The sentences of the segmenter *)

\* the loop over the matches and the text after the last match, before
\* the final filtering pass
BeforeFilter(doc) == WithRemaining(doc, SplitLoop(doc, FindIter(doc, 0), 0, NoSentences))

\* C29: the sentence spans are strictly increasing with at least one
\* character between consecutive spans, every sentence but the last ends
\* with a terminator, every match of the boundary pattern yields a
\* non-empty sentence (the loop appends once per match), and the final
\* filtering pass removes nothing.
C29_SentencesSeparatedAndNonEmpty ==
    (ChunkRunning /\ document # <<>>) =>
        /\ \A n \in 1..Len(sentences.spans) :
              sentences.spans[n][1] < sentences.spans[n][2]
        /\ \A n \in 1..(Len(sentences.spans) - 1) :
              /\ sentences.spans[n][2] < sentences.spans[n + 1][1]
              /\ sentences.texts[n] # <<>>
              /\ sentences.texts[n][Len(sentences.texts[n])] \in sentence_boundaries
              /\ CharAt(document, sentences.spans[n][2] - 1) \in sentence_boundaries
        /\ Len(SplitLoop(document, FindIter(document, 0), 0, NoSentences).acc.texts)
              = Len(FindIter(document, 0))
        /\ Filtered(BeforeFilter(document).texts, BeforeFilter(document).spans)
              = BeforeFilter(document)
        /\ \A n \in 1..Len(BeforeFilter(document).texts) :
              BeforeFilter(document).texts[n] # <<>>

C29_Witness ==
    /\ ChunkDone
    /\ document = <<"a", "?", " ", "a", "!", "\n", "\t", "a">>
    /\ sentences.spans = <<<<0, 2>>, <<3, 5>>, <<7, 8>>>>
    /\ sentences.texts = <<<<"a", "?">>, <<"a", "!">>, <<"a">>>>
    /\ Len(FindIter(document, 0)) = 2

---------------------------------------------------------------------------
(* Objects that compile to null without a message *)

Silently(r) == r = Returned(NoneF, <<>>)

\* C30: a leaf-shaped object without a truthy "property" or a truthy
\* "operator", and an and/or object without a "filters" entry, compile to
\* null with nothing printed and no exit, also when the operator is
\* unknown or the value is not a list; a leaf with a property and a
\* recognized operator whose "value" is missing does not compile to null.
C30_IncompleteObjectsAreSilentlyNull ==
    FilterDone =>
        LET x == filter_json.data IN
        /\ (IsPropertyObject(x) /\ (~Truthy(x.prop) \/ ~Truthy(x.op))) =>
              pf_pc = "returned" /\ Silently(pf_result)
        /\ (x.t = "dict" /\ x.op \in {"and", "or"} /\ x.fk = "missing") =>
              pf_pc = "returned" /\ Silently(pf_result)
        /\ (IsPropertyObject(x) /\ Truthy(x.prop) /\ x.op \in RecognizedOperators
                /\ x.val = "None") =>
              ~(pf_pc = "returned" /\ pf_result.f = NoneF)
        /\ (x.t = "list" /\ \A n \in 1..Len(x.kids) :
                IsPropertyObject(x.kids[n])
                /\ (~Truthy(x.kids[n].prop) \/ ~Truthy(x.kids[n].op))) =>
              pf_pc = "returned" /\ Silently(pf_result)

C30_Witness ==
    /\ pf_pc = "returned"
    /\ filter_json = FilterArg("json", JLeaf(PyNone, "bogus", "1"))
    /\ Silently(pf_result)

=============================================================================
